---- MODULE Spec2Model ----
(***************************************************************************)
(* A model of the price-label generator: the paginated PDF export          *)
(* (generatePDF / drawLabelToPDF), the designation truncation, the price   *)
(* display of the branded and compact templates, the spreadsheet mapping   *)
(* (mapDataToProducts), the label templates of export and preview, the     *)
(* LabelPreview component, and the wizard (PriceLabelGenerator) that       *)
(* calls them.                                                             *)
(*                                                                         *)
(* Each part of the program has its own variables and its own              *)
(* specification (SpecPDF, SpecFit, SpecPrice, SpecMap, SpecLabel,         *)
(* SpecPreview, SpecWizard); the variables of the other parts are held at  *)
(* their idle values.  The wizard passes its state to the other parts as   *)
(* their arguments and props.                                              *)
(***************************************************************************)
EXTENDS Integers, Sequences, FiniteSets, Bags, TLC

VARIABLES
    \* ---- generatePDF (export) ----
    products,       \* the Product[] argument
    imageCache,     \* the Map<string, HTMLImageElement> argument: reference -> image
    pc,             \* position inside generatePDF
    totalPages,     \* const totalPages
    page,           \* the outer loop variable
    pageProducts,   \* products.slice(startIndex, endIndex)
    i,              \* the inner loop variable
    docPages,       \* number of pages of the jsPDF document (the last one is current)
    placed,         \* every drawLabelToPDF call so far, in call order
    saved,          \* number of pdf.save calls
    \* ---- designation truncation ----
    fitPc, fitText, fitMaxWidth, fitResult, fitAgain,
    \* ---- price display ----
    pricePc, prix, priceNumber, hasDecimal, decimal, priceText,
    \* ---- mapDataToProducts ----
    mapPc, data, mapping, imageFiles, mapResult,
    \* ---- one label under each template ----
    lblProduct,     \* the product drawn
    lblImage,       \* export: what the image cache and the conversion give for it
    lblLoad,        \* preview: what loading product.image gives
    lblBarcodeLoad, \* preview: whether the barcode image loads
    lblOps,         \* renderer -> the drawing operations it issued
    \* ---- LabelPreview ----
    pvProducts,     \* the products prop
    currentIndex,   \* useState(0)
    pvCache,        \* the component's imageCache state: the references it holds
    canvas,         \* the drawing operations on the canvas since it was last reset
    runs,           \* the drawLabel calls suspended at an await (a bag)
    pvPending,      \* a render whose effect (drawLabel) has not run yet
    clicks,         \* the navigation clicks so far: handler and index before it
    \* ---- PriceLabelGenerator (the wizard) ----
    currentStep,    \* useState<Step>('upload')
    excelData,      \* useState(null): Null or { data, columns }
    wzImageFiles,   \* the imageFiles state: reference -> object URL
    wzProducts,     \* the products state
    wzImageCache,   \* the imageCache state
    isLoading,      \* useState(false)
    parsing,        \* the handleExcelUpload calls suspended at await parseExcelFile
    toasts          \* every toast shown so far: kind and the handler that called it

pdfVars   == <<products, imageCache, pc, totalPages, page, pageProducts, i,
               docPages, placed, saved>>
fitVars   == <<fitPc, fitText, fitMaxWidth, fitResult, fitAgain>>
priceVars == <<pricePc, prix, priceNumber, hasDecimal, decimal, priceText>>
mapVars   == <<mapPc, data, mapping, imageFiles, mapResult>>
labelVars == <<lblProduct, lblImage, lblLoad, lblBarcodeLoad, lblOps>>
previewVars == <<pvProducts, currentIndex, pvCache, canvas, runs, pvPending, clicks>>
wizardVars == <<currentStep, excelData, wzImageFiles, wzProducts, wzImageCache,
                isLoading, parsing, toasts>>
vars      == <<pdfVars, fitVars, priceVars, mapVars, labelVars, previewVars, wizardVars>>

(***************************************************************************)
(* Bounds of the model.                                                    *)
(***************************************************************************)
MaxProducts == 49      \* longest product list given to generatePDF
MaxTextLen  == 5       \* longest designation given to the truncation
MaxWidth    == 8       \* widest maxWidth given to the truncation
FracDigits  == 3       \* decimal digits of a price (prices are multiples of 10^-FracDigits)
MaxPriceInt == 12      \* largest integer part of a price
MaxDataRows == 2       \* most data rows (below the header) of a sheet
MaxPreviewProducts == 3 \* longest product list given to the preview
MaxClicks   == 4       \* most navigation clicks in the preview
MaxSuspended == 2      \* a click comes only while fewer drawLabel calls are suspended
MaxToasts   == 8       \* a handler of the wizard starts only while fewer toasts were shown

(***************************************************************************)
(* Arithmetic helpers.                                                     *)
(***************************************************************************)
Min(a, b) == IF a < b THEN a ELSE b

\* Math.ceil(a / b) for a >= 0, b > 0
CeilDiv(a, b) == (a + b - 1) \div b

RECURSIVE Pow(_, _)
Pow(b, e) == IF e = 0 THEN 1 ELSE b * Pow(b, e - 1)

(***************************************************************************)
(* Text measurement and the designation truncation.                        *)
(* A string is a sequence of characters.  getTextWidth / measureText is    *)
(* the sum of the characters' advance widths (Helvetica bold 10pt, in mm,  *)
(* rounded: i and . are 1 wide, a is 2, m is 3).                           *)
(***************************************************************************)
Alphabet == {"i", "m", "."}
Texts    == UNION {[1..n -> Alphabet] : n \in 0..MaxTextLen}

CharWidth(c) == CASE c = "i" -> 1
                  [] c = "." -> 1
                  [] c = "a" -> 2
                  [] c = "m" -> 3

RECURSIVE Measure(_)
Measure(s) == IF s = <<>> THEN 0 ELSE CharWidth(Head(s)) + Measure(Tail(s))

\* the literal '...' the code appends
Ellipsis == <<".", ".", ".">>

\* designation.slice(0, -1)
DropLast(s) == SubSeq(s, 1, Len(s) - 1)

\* mutant: the loop measures the designation without the ellipsis
RECURSIVE ShrinkNoEllipsis(_, _)
ShrinkNoEllipsis(d, maxWidth) ==
    IF Measure(d) > maxWidth /\ Len(d) > 0
    THEN ShrinkNoEllipsis(DropLast(d), maxWidth)
    ELSE d

\* mutant: the loop stops one character early (length > 1)
RECURSIVE ShrinkKeepsOne(_, _)
ShrinkKeepsOne(d, maxWidth) ==
    IF Measure(d \o Ellipsis) > maxWidth /\ Len(d) > 1
    THEN ShrinkKeepsOne(DropLast(d), maxWidth)
    ELSE d

\* while (width(designation + '...') > maxWidth && designation.length > 0)
\*     designation = designation.slice(0, -1)
RECURSIVE Shrink(_, _)
Shrink(d, maxWidth) ==
    IF Measure(d \o Ellipsis) > maxWidth /\ Len(d) > 0
    THEN Shrink(DropLast(d), maxWidth)
    ELSE d

\* mutant: the ellipsis is appended whether or not the text was cut
TruncateAlwaysEllipsis(text, maxWidth) ==
    IF Measure(text) > maxWidth
    THEN Shrink(text, maxWidth) \o Ellipsis
    ELSE text \o Ellipsis

\* if (width(designation) > maxWidth) { shrink; designation += '...' }
Truncate(text, maxWidth) ==
    IF Measure(text) > maxWidth
    THEN Shrink(text, maxWidth) \o Ellipsis
    ELSE text

(***************************************************************************)
(* Prices.  A price (a JavaScript number) is an integer count of           *)
(* 10^-FracDigits.  toFixed(2) rounds the exact value of the number to the *)
(* nearest hundredth and takes the larger one at a tie; a decimal such as  *)
(* 1.005 is no tie as a double, so the model leaves the decimal ties out   *)
(* unless the double is exact (0.125, 0.375, ...).                         *)
(***************************************************************************)
PRICE_UNIT == Pow(10, FracDigits)

IsTie(m)         == (200 * m) % (2 * PRICE_UNIT) = PRICE_UNIT
IsExactDouble(m) == m % Pow(5, FracDigits) = 0
Prices == {m \in 0..((MaxPriceInt + 1) * PRICE_UNIT - 1) : IsTie(m) => IsExactDouble(m)}

Digits == <<"0", "1", "2", "3", "4", "5", "6", "7", "8", "9">>
DigitChar(d) == Digits[d + 1]
DigitVal(c)  == CHOOSE d \in 0..9 : Digits[d + 1] = c

\* Number.prototype.toString of a non-negative integer
RECURSIVE NatToStr(_)
NatToStr(n) == IF n < 10 THEN <<DigitChar(n)>>
               ELSE NatToStr(n \div 10) \o <<DigitChar(n % 10)>>

\* the number a string of digits denotes
RECURSIVE StrToNat(_)
StrToNat(s) == IF s = <<>> THEN 0
               ELSE 10 * StrToNat(DropLast(s)) + DigitVal(s[Len(s)])

Abs(x) == IF x < 0 THEN -x ELSE x

\* Math.floor(x)
Floor(x) == x \div PRICE_UNIT

\* x % 1 (the result has the sign of x)
Mod1(x) == IF x >= 0 THEN x % PRICE_UNIT ELSE -((-x) % PRICE_UNIT)

\* the n of toFixed(2): the integer for which n / 100 - x is closest to zero,
\* the larger one if there are two (x >= 0)
RoundCents(x) == (200 * x + PRICE_UNIT) \div (2 * PRICE_UNIT)

\* x.toFixed(2)
ToFixed2(x) ==
    LET n == RoundCents(Abs(x))
    IN  (IF x < 0 THEN <<"-">> ELSE <<>>)
        \o NatToStr(n \div 100) \o <<".">>
        \o <<DigitChar((n % 100) \div 10), DigitChar(n % 10)>>

\* s.substring(1)
Substring1(s) == IF s = <<>> THEN <<>> ELSE Tail(s)

\* mutant: the remainder is compared at 2-decimal precision
HasDecimalPartRounded(x) == RoundCents(Abs(Mod1(x))) # 0

\* if (prix % 1 !== 0)
HasDecimalPart(x) == Mod1(x) # 0

\* (prix % 1).toFixed(2).substring(1)
DecimalPart(x) == Substring1(ToFixed2(Mod1(x)))

\* Math.floor(prix).toString()
PriceNumber(x) == NatToStr(Floor(x))

\* `${prix.toFixed(2)} €`
PriceText(x) == ToFixed2(x) \o <<" ", "€">>


(***************************************************************************)
(* Page geometry (pdfGenerator).  Lengths are in half millimetres, since   *)
(* MARGIN_Y is 4.5 mm.                                                     *)
(***************************************************************************)
LABELS_PER_ROW    == 3
LABELS_PER_COLUMN == 8
LABELS_PER_PAGE   == LABELS_PER_ROW * LABELS_PER_COLUMN
PAGE_WIDTH        == 210
PAGE_HEIGHT       == 297
LABEL_WIDTH       == 70
LABEL_HEIGHT      == 36
HALF              == 2     \* the divisor of the margins; one mm is HALF length units

MARGIN_X == (HALF * (PAGE_WIDTH - (LABELS_PER_ROW * LABEL_WIDTH))) \div 2
MARGIN_Y == (HALF * (PAGE_HEIGHT - (LABELS_PER_COLUMN * LABEL_HEIGHT))) \div 2

\* mutant: Math.floor instead of Math.ceil
TotalPagesFloor(n) == n \div LABELS_PER_PAGE

\* Math.ceil(products.length / LABELS_PER_PAGE)
TotalPages(n) == CeilDiv(n, LABELS_PER_PAGE)

\* page * LABELS_PER_PAGE
StartIndex(pg) == pg * LABELS_PER_PAGE

\* mutant: the slice of a page reaches one product into the next page
EndIndexOneMore(pg, n) == Min(StartIndex(pg) + LABELS_PER_PAGE + 1, n)

\* Math.min(startIndex + LABELS_PER_PAGE, products.length)
EndIndex(pg, n) == Min(StartIndex(pg) + LABELS_PER_PAGE, n)

\* mutant: the slice starts one element late
SliceLate(seq, start, end) == SubSeq(seq, start + 2, end)

\* Array.prototype.slice(start, end) with 0 <= start, end <= length
Slice(seq, start, end) == SubSeq(seq, start + 1, end)

\* Math.floor(i / LABELS_PER_ROW)
RowOf(k) == k \div LABELS_PER_ROW

\* mutant: the column is taken modulo the rows per column
ColOfByColumn(k) == k % LABELS_PER_COLUMN

\* i % LABELS_PER_ROW
ColOf(k) == k % LABELS_PER_ROW

\* MARGIN_X + (col * LABEL_WIDTH)
CellX(col) == MARGIN_X + (col * LABEL_WIDTH * HALF)

\* mutant: rows advance by the label width
CellYByWidth(row) == MARGIN_Y + (row * LABEL_WIDTH * HALF)

\* MARGIN_Y + (row * LABEL_HEIGHT)
CellY(row) == MARGIN_Y + (row * LABEL_HEIGHT * HALF)

(***************************************************************************)
(* drawLabelToPDF (compact template): the elements it draws, in order.     *)
(***************************************************************************)
PADDING    == 2
IMAGE_SIZE == 15

\* const contentWidth = LABEL_WIDTH - (padding * 2)
ContentWidth == LABEL_WIDTH - (PADDING * 2)
\* const textWidth = contentWidth - imageSize - 2
TextWidth == ContentWidth - IMAGE_SIZE - 2
\* const maxDesignationWidth = textWidth - 15
MaxDesignationWidth == TextWidth - 15

Op(el, arg) == [el |-> el, arg |-> arg]

\* JsBarcode(canvas, text, {format: "CODE128"}) throws on an empty text and on a
\* character outside the symbology (the ASCII characters that occur in the model
\* are encodable, "é" is not)
Code128Chars == {"0", "1", "2", "3", "4", "5", "6", "7", "8", "9",
                 "a", "i", "m", "r", "x", " ", "-", "."}
Encodable(text) == text # <<>> /\ \A k \in 1..Len(text) : text[k] \in Code128Chars

\* pdf.rect(x, y, size, size, 'F'); pdf.text('No Image', ...)
DrawPlaceholderImage == <<Op("placeholderBox", <<>>), Op("placeholderCaption", <<>>)>>

\* mutant: a reference without a cache entry gets nothing in its image slot
DrawProductImageSkipsMissing(product, cache) ==
    IF product.reference \in DOMAIN cache
    THEN CASE cache[product.reference] = "ok"     -> <<Op("image", product.reference)>>
           [] cache[product.reference] = "noctx"  -> <<>>
           [] cache[product.reference] = "throws" -> DrawPlaceholderImage
    ELSE <<>>

\* the product image block: imageCache.get(reference), canvas conversion, addImage
DrawProductImage(product, cache) ==
    IF product.reference \in DOMAIN cache
    THEN CASE cache[product.reference] = "ok"     -> <<Op("image", product.reference)>>
           [] cache[product.reference] = "noctx"  -> <<>>
           [] cache[product.reference] = "throws" -> DrawPlaceholderImage
    ELSE DrawPlaceholderImage

\* mutant: the barcode text is drawn before the symbol
DrawBarcodeTextFirst(product) ==
    IF Encodable(product.codebar)
    THEN <<Op("barcodeText", product.codebar), Op("barcode", product.codebar)>>
    ELSE <<>>

\* the barcode block: JsBarcode, addImage, barcode text; nothing if it throws
DrawBarcode(product) ==
    IF Encodable(product.codebar)
    THEN <<Op("barcode", product.codebar), Op("barcodeText", product.codebar)>>
    ELSE <<>>

DrawLabelToPDF(product, cache) ==
    <<Op("border", <<>>)>>
    \o DrawProductImage(product, cache)
    \o <<Op("designation", Truncate(product.designation, MaxDesignationWidth)),
         Op("reference", product.reference),
         Op("price", PriceText(product.prix))>>
    \o (IF product.qte > 1 THEN <<Op("quantity", NatToStr(product.qte))>> ELSE <<>>)
    \o DrawBarcode(product)


(***************************************************************************)
(* generatePDF.  The inputs: a product list cut from a small catalogue     *)
(* (taken cyclically with a stride, so that lists with repeated and with   *)
(* distinct neighbours both occur) and an image cache.                     *)
(***************************************************************************)
\* product.image when imageFiles has no entry for the reference (undefined)
NoImage == <<>>

Product(ref, code, des, q, px, img) ==
    [reference |-> ref, codebar |-> code, designation |-> des, qte |-> q, prix |-> px,
     image |-> img]

Catalogue == <<
    Product(<<"r", "1">>, <<"1", "2", "3">>, <<"m", "i">>, 1, 12 * PRICE_UNIT + PRICE_UNIT \div 2,
            <<"u", "1">>),
    Product(<<"r", "2">>, <<"4", "5">>, [k \in 1..14 |-> "m"], 3, 7 * PRICE_UNIT, <<"u", "2">>),
    Product(<<"r", "3">>, <<>>, <<"a", "m", "i">>, 2, 0, NoImage),
    Product(<<"r", "4">>, <<"7", "é">>, [k \in 1..60 |-> "i"], 1, PRICE_UNIT - 1, <<"u", "4">>),
    Product(<<"r", "5">>, <<"9">>, <<"i">>, 1, 3 * PRICE_UNIT + 1, NoImage) >>

Strides == {0, 1, 2}
Offsets == {0, 3}

ProductList(n, stride, offset) ==
    [k \in 1..n |-> Catalogue[(((k - 1) * stride + offset) % Len(Catalogue)) + 1]]

ImageCaches == {
    <<>>,
    (<<"r", "1">> :> "ok") @@ (<<"r", "2">> :> "throws") @@ (<<"r", "3">> :> "noctx"),
    [r \in {Catalogue[k].reference : k \in 1..Len(Catalogue)} |-> "ok"] }

PdfInit ==
    /\ \E n \in 0..MaxProducts, stride \in Strides, offset \in Offsets :
           products = ProductList(n, stride, offset)
    /\ imageCache \in ImageCaches
    /\ pc = "start"
    /\ totalPages = 0 /\ page = 0 /\ pageProducts = <<>> /\ i = 0
    /\ docPages = 0 /\ placed = <<>> /\ saved = 0
    \* the other parts are idle
    /\ fitPc = "idle" /\ fitText = <<>> /\ fitMaxWidth = 0
    /\ fitResult = <<>> /\ fitAgain = <<>>
    /\ pricePc = {} /\ prix = 0 /\ priceNumber = <<>> /\ hasDecimal = FALSE
    /\ decimal = <<>> /\ priceText = <<>>
    /\ mapPc = "idle" /\ data = <<>> /\ mapping = <<>> /\ imageFiles = <<>>
    /\ mapResult = <<>>
    /\ lblProduct = <<>> /\ lblImage = "none" /\ lblLoad = "none"
    /\ lblBarcodeLoad = FALSE /\ lblOps = <<>>
    /\ pvProducts = <<>> /\ currentIndex = 0 /\ pvCache = {} /\ canvas = <<>>
    /\ runs = EmptyBag /\ pvPending = FALSE /\ clicks = <<>>
    /\ currentStep = "upload" /\ excelData = <<>> /\ wzImageFiles = <<>>
    /\ wzProducts = <<>> /\ wzImageCache = <<>> /\ isLoading = FALSE
    /\ parsing = {} /\ toasts = <<>>

\* const pdf = new jsPDF(): the document starts with its first page;
\* const totalPages = Math.ceil(...)
NewPDF ==
    /\ pc = "start"
    /\ docPages' = 1
    /\ totalPages' = TotalPages(Len(products))
    /\ page' = 0
    /\ pc' = "pages"
    /\ UNCHANGED <<products, imageCache, pageProducts, i, placed, saved>>
    /\ UNCHANGED <<fitVars, priceVars, mapVars, labelVars, previewVars, wizardVars>>

\* one turn of the outer loop up to the inner loop: addPage for page > 0, the slice
BeginPage ==
    /\ pc = "pages"
    /\ page < totalPages
    /\ docPages' = IF page > 0 THEN docPages + 1 ELSE docPages
    /\ pageProducts' = Slice(products, StartIndex(page), EndIndex(page, Len(products)))
    /\ i' = 0
    /\ pc' = "labels"
    /\ UNCHANGED <<products, imageCache, totalPages, page, placed, saved>>
    /\ UNCHANGED <<fitVars, priceVars, mapVars, labelVars, previewVars, wizardVars>>

\* one turn of the inner loop: row, col, x, y and await drawLabelToPDF
PlaceLabel ==
    /\ pc = "labels"
    /\ i < Len(pageProducts)
    /\ LET product == pageProducts[i + 1]
           row     == RowOf(i)
           col     == ColOf(i)
       IN  placed' = Append(placed,
               [product |-> product, docPage |-> docPages, row |-> row, col |-> col,
                x |-> CellX(col), y |-> CellY(row),
                ops |-> DrawLabelToPDF(product, imageCache)])
    /\ i' = i + 1
    /\ UNCHANGED <<products, imageCache, pc, totalPages, page, pageProducts, docPages, saved>>
    /\ UNCHANGED <<fitVars, priceVars, mapVars, labelVars, previewVars, wizardVars>>

\* the inner loop ends: page++
EndPage ==
    /\ pc = "labels"
    /\ i >= Len(pageProducts)
    /\ page' = page + 1
    /\ pc' = "pages"
    /\ UNCHANGED <<products, imageCache, totalPages, pageProducts, i, docPages, placed, saved>>
    /\ UNCHANGED <<fitVars, priceVars, mapVars, labelVars, previewVars, wizardVars>>

\* the outer loop ends: pdf.save('price-labels.pdf')
Save ==
    /\ pc = "pages"
    /\ page >= totalPages
    /\ saved' = saved + 1
    /\ pc' = "done"
    /\ UNCHANGED <<products, imageCache, totalPages, page, pageProducts, i, docPages, placed>>
    /\ UNCHANGED <<fitVars, priceVars, mapVars, labelVars, previewVars, wizardVars>>

PdfNext == NewPDF \/ BeginPage \/ PlaceLabel \/ EndPage \/ Save

SpecPDF == PdfInit /\ [][PdfNext]_vars


(***************************************************************************)
(* Claims about generatePDF (checked under SpecPDF).                       *)
(***************************************************************************)
\* the labels drawn on document page p, as indices into placed
LabelsOn(p) == {k \in 1..Len(placed) : placed[k].docPage = p}

\* the products handed to drawLabelToPDF, in call order
DrawnProducts == [k \in 1..Len(placed) |-> placed[k].product]

\* C1 (as stated): when generatePDF has finished, the document holds exactly
\* ceil(n / 24) pages for n products, and so 0 pages when n = 0.
C1_PageCountIsCeil ==
    pc = "done" =>
        /\ docPages * LABELS_PER_PAGE >= Len(products)
        /\ (docPages - 1) * LABELS_PER_PAGE < Len(products)
        /\ (Len(products) = 0 => docPages = 0)

\* C1 (amended): when generatePDF has finished, the document holds exactly
\* ceil(n / 24) pages for n >= 1 products, every one of them carrying a label,
\* and for n = 0 it holds the one initial page of new jsPDF(), with no label on it.
C1_PageCountAmended ==
    pc = "done" =>
        /\ Len(products) >= 1 =>
              /\ docPages * LABELS_PER_PAGE >= Len(products)
              /\ (docPages - 1) * LABELS_PER_PAGE < Len(products)
              /\ \A p \in 1..docPages : LabelsOn(p) # {}
        /\ Len(products) = 0 => (docPages = 1 /\ placed = <<>>)

\* C1 witness: an export of 48 products has finished with two pages.
C1_Witness == pc = "done" /\ Len(products) = 2 * LABELS_PER_PAGE /\ docPages = 2

\* C2: for n >= 1 products every non-final page receives exactly 24 labels and
\* the final page n mod 24 (24 when 24 divides n); on each page the (row, col)
\* pairs are pairwise distinct, row is in 0..7, col in 0..2, and the grid is
\* filled in row-major order (the j-th label of a page, from 0, is at row
\* floor(j / 3) and column j mod 3).
C2_GridTiling ==
    /\ \A k \in 1..Len(placed) :
          /\ placed[k].row \in 0..(LABELS_PER_COLUMN - 1)
          /\ placed[k].col \in 0..(LABELS_PER_ROW - 1)
          /\ placed[k].row * LABELS_PER_ROW + placed[k].col
                = Cardinality({l \in LabelsOn(placed[k].docPage) : l < k})
    /\ pc = "done" /\ Len(products) >= 1 =>
          /\ \A p \in 1..docPages :
                Cardinality(LabelsOn(p)) =
                    IF p < docPages THEN 24
                    ELSE IF Len(products) % 24 = 0 THEN 24 ELSE Len(products) % 24
          /\ \A k, l \in 1..Len(placed) :
                (k # l /\ placed[k].docPage = placed[l].docPage)
                    => <<placed[k].row, placed[k].col>> # <<placed[l].row, placed[l].col>>

\* C2 witness: an export of 49 products has finished: two full pages and a
\* final page with one label.
C2_Witness ==
    /\ pc = "done" /\ Len(products) = 49 /\ docPages = 3
    /\ Cardinality(LabelsOn(2)) = 24 /\ Cardinality(LabelsOn(3)) = 1

\* C3: the products passed to drawLabelToPDF, flattened over all pages, are
\* at every moment a prefix of the input list and, when generatePDF has
\* finished, the input list itself: none skipped, duplicated or reordered.
C3_OrderPreserved ==
    /\ Len(placed) <= Len(products)
    /\ DrawnProducts = SubSeq(products, 1, Len(placed))
    /\ pc = "done" => DrawnProducts = products

\* C3 witness: an export over more than one page has finished, of a list
\* whose neighbours differ and in which a product occurs twice.
C3_Witness ==
    /\ pc = "done" /\ Len(products) > LABELS_PER_PAGE
    /\ products[1] # products[2]
    /\ \E k \in 2..Len(products) : products[k] = products[1]

\* C4: every cell placed has its origin at (MARGIN_X + col * 70,
\* MARGIN_Y + row * 36) with MARGIN_X = (210 - 3 * 70) / 2 and
\* MARGIN_Y = (297 - 8 * 36) / 2; the 70 x 36 cells of one page do not overlap,
\* each lies inside the 210 x 297 page, and the margins on opposite sides are
\* equal.  (Lengths in half millimetres.)
C4_CellsTileThePage ==
    LET W  == HALF * LABEL_WIDTH
        H  == HALF * LABEL_HEIGHT
        PW == HALF * PAGE_WIDTH
        PH == HALF * PAGE_HEIGHT
    IN  /\ \A k \in 1..Len(placed) :
              /\ 2 * placed[k].x = HALF * ((210 - 3 * 70) + 2 * placed[k].col * 70)
              /\ 2 * placed[k].y = HALF * ((297 - 8 * 36) + 2 * placed[k].row * 36)
              /\ 0 <= placed[k].x /\ placed[k].x + W <= PW
              /\ 0 <= placed[k].y /\ placed[k].y + H <= PH
        /\ pc = "done" =>
              \A k, l \in 1..Len(placed) :
                 /\ (k # l /\ placed[k].docPage = placed[l].docPage) =>
                       \/ placed[k].x + W <= placed[l].x
                       \/ placed[l].x + W <= placed[k].x
                       \/ placed[k].y + H <= placed[l].y
                       \/ placed[l].y + H <= placed[k].y
                 /\ (placed[k].col = 0 /\ placed[l].col = LABELS_PER_ROW - 1) =>
                       placed[k].x = PW - (placed[l].x + W)
                 /\ (placed[k].row = 0 /\ placed[l].row = LABELS_PER_COLUMN - 1) =>
                       placed[k].y = PH - (placed[l].y + H)

\* C4 witness: a full page has been placed: its first cell is at the top
\* left margin and its last cell in row 7, column 2.
C4_Witness ==
    /\ pc = "done" /\ Len(placed) >= LABELS_PER_PAGE
    /\ placed[1].x = 0 /\ placed[1].y = 9
    /\ placed[LABELS_PER_PAGE].row = 7 /\ placed[LABELS_PER_PAGE].col = 2


(***************************************************************************)
(* The designation truncation as drawLabelToPDF and drawLabel apply it,    *)
(* for every text over the alphabet and every maxWidth from -1 to          *)
(* MaxWidth, and applied again to its own result.                          *)
(***************************************************************************)
FitInit ==
    /\ fitPc = "start"
    /\ fitText \in Texts
    /\ fitMaxWidth \in (-1)..MaxWidth
    /\ fitResult = <<>> /\ fitAgain = <<>>
    \* the other parts are idle
    /\ products = <<>> /\ imageCache = <<>> /\ pc = "idle" /\ totalPages = 0
    /\ page = 0 /\ pageProducts = <<>> /\ i = 0 /\ docPages = 0
    /\ placed = <<>> /\ saved = 0
    /\ pricePc = {} /\ prix = 0 /\ priceNumber = <<>> /\ hasDecimal = FALSE
    /\ decimal = <<>> /\ priceText = <<>>
    /\ mapPc = "idle" /\ data = <<>> /\ mapping = <<>> /\ imageFiles = <<>>
    /\ mapResult = <<>>
    /\ lblProduct = <<>> /\ lblImage = "none" /\ lblLoad = "none"
    /\ lblBarcodeLoad = FALSE /\ lblOps = <<>>
    /\ pvProducts = <<>> /\ currentIndex = 0 /\ pvCache = {} /\ canvas = <<>>
    /\ runs = EmptyBag /\ pvPending = FALSE /\ clicks = <<>>
    /\ currentStep = "upload" /\ excelData = <<>> /\ wzImageFiles = <<>>
    /\ wzProducts = <<>> /\ wzImageCache = <<>> /\ isLoading = FALSE
    /\ parsing = {} /\ toasts = <<>>

\* the truncation of product.designation
Fit ==
    /\ fitPc = "start"
    /\ fitResult' = Truncate(fitText, fitMaxWidth)
    /\ fitPc' = "fit"
    /\ UNCHANGED <<fitText, fitMaxWidth, fitAgain>>
    /\ UNCHANGED <<pdfVars, priceVars, mapVars, labelVars, previewVars, wizardVars>>

\* the truncation of a designation that is itself a truncation's result
Refit ==
    /\ fitPc = "fit"
    /\ fitAgain' = Truncate(fitResult, fitMaxWidth)
    /\ fitPc' = "refit"
    /\ UNCHANGED <<fitText, fitMaxWidth, fitResult>>
    /\ UNCHANGED <<pdfVars, priceVars, mapVars, labelVars, previewVars, wizardVars>>

FitNext == Fit \/ Refit

SpecFit == FitInit /\ [][FitNext]_vars

\* text.slice(0, k)
Prefix(text, k) == SubSeq(text, 1, k)

\* the result is the longest prefix of the text followed by the ellipsis that
\* is at most maxWidth wide
IsLongestFittingPrefix(text, maxWidth, result) ==
    \E k \in 0..Len(text) :
        /\ result = Prefix(text, k) \o Ellipsis
        /\ Measure(result) <= maxWidth
        /\ \A j \in (k + 1)..Len(text) : Measure(Prefix(text, j) \o Ellipsis) > maxWidth

C6_FitIdempotent == fitPc = "refit" => fitAgain = fitResult

\* C6 witness: a text was truncated, and its result truncated again, with a
\* positive maxWidth that not even the ellipsis alone fits.
C6_Witness ==
    /\ fitPc = "refit" /\ fitText # <<>> /\ fitResult # fitText
    /\ Measure(Ellipsis) > fitMaxWidth /\ fitMaxWidth > 0

PriceInit ==
    /\ pricePc = {}
    /\ prix \in Prices
    /\ priceNumber = <<>> /\ hasDecimal = FALSE /\ decimal = <<>> /\ priceText = <<>>
    \* the other parts are idle
    /\ products = <<>> /\ imageCache = <<>> /\ pc = "idle" /\ totalPages = 0
    /\ page = 0 /\ pageProducts = <<>> /\ i = 0 /\ docPages = 0
    /\ placed = <<>> /\ saved = 0
    /\ fitPc = "idle" /\ fitText = <<>> /\ fitMaxWidth = 0
    /\ fitResult = <<>> /\ fitAgain = <<>>
    /\ mapPc = "idle" /\ data = <<>> /\ mapping = <<>> /\ imageFiles = <<>>
    /\ mapResult = <<>>
    /\ lblProduct = <<>> /\ lblImage = "none" /\ lblLoad = "none"
    /\ lblBarcodeLoad = FALSE /\ lblOps = <<>>
    /\ pvProducts = <<>> /\ currentIndex = 0 /\ pvCache = {} /\ canvas = <<>>
    /\ runs = EmptyBag /\ pvPending = FALSE /\ clicks = <<>>
    /\ currentStep = "upload" /\ excelData = <<>> /\ wzImageFiles = <<>>
    /\ wzProducts = <<>> /\ wzImageCache = <<>> /\ isLoading = FALSE
    /\ parsing = {} /\ toasts = <<>>

\* branded templates: priceNumber, then the decimal part if prix % 1 !== 0
DrawBrandedPrice ==
    /\ "branded" \notin pricePc
    /\ priceNumber' = PriceNumber(prix)
    /\ hasDecimal' = HasDecimalPart(prix)
    /\ decimal' = IF HasDecimalPart(prix) THEN DecimalPart(prix) ELSE <<>>
    /\ pricePc' = pricePc \cup {"branded"}
    /\ UNCHANGED <<prix, priceText>>
    /\ UNCHANGED <<pdfVars, fitVars, mapVars, labelVars, previewVars, wizardVars>>

\* compact template: priceText
DrawCompactPrice ==
    /\ "compact" \notin pricePc
    /\ priceText' = PriceText(prix)
    /\ pricePc' = pricePc \cup {"compact"}
    /\ UNCHANGED <<prix, priceNumber, hasDecimal, decimal>>
    /\ UNCHANGED <<pdfVars, fitVars, mapVars, labelVars, previewVars, wizardVars>>

PriceNext == DrawBrandedPrice \/ DrawCompactPrice

SpecPrice == PriceInit /\ [][PriceNext]_vars

\* the position of the decimal point in a string
DotAt(s) == CHOOSE k \in 1..Len(s) : s[k] = "."

\* the amount in cents that the branded display denotes: the integer part
\* and, if drawn, the two digits after the point of the decimal part
BrandedCents ==
    100 * StrToNat(priceNumber)
    + (IF hasDecimal THEN StrToNat(SubSeq(decimal, DotAt(decimal) + 1, Len(decimal))) ELSE 0)

\* the amount in cents that the compact display 'E.CC €' denotes
CompactCents ==
    LET d == DotAt(priceText)
    IN  100 * StrToNat(SubSeq(priceText, 1, d - 1)) + StrToNat(SubSeq(priceText, d + 1, d + 2))

\* C8: for every non-negative price the branded display (integer part and
\* decimal part) denotes the same amount in cents as price.toFixed(2) of the
\* compact display.
C8_DisplaysAgree ==
    pricePc = {"branded", "compact"} => BrandedCents = CompactCents

\* C8 witness: the price 12.50 is drawn as "12" and ".50" and as "12.50 €".
C8_Witness ==
    /\ pricePc = {"branded", "compact"}
    /\ priceNumber = <<"1", "2">> /\ decimal = <<".", "5", "0">>
    /\ priceText = <<"1", "2", ".", "5", "0", " ", "€">>

\* C9 (as stated): the decimal part is drawn if and only if the price rounded
\* to 2 decimals is not a whole number.
C9_DecimalIffNotWholeAtCents ==
    "branded" \in pricePc => (hasDecimal <=> RoundCents(prix) % 100 # 0)

\* C9 (amended): the decimal part is drawn if and only if the price is not
\* exactly a whole number; so it is drawn whenever the price rounded to 2
\* decimals is not whole, and also, as ".00", for a price that is not whole
\* but rounds, at 2 decimals, to a whole number.
C9_DecimalIffNotWhole ==
    "branded" \in pricePc =>
        /\ hasDecimal <=> ~(\E k \in 0..(MaxPriceInt + 1) : prix = k * PRICE_UNIT)
        /\ RoundCents(prix) % 100 # 0 => hasDecimal
        /\ (hasDecimal /\ RoundCents(prix) % 100 = 0) => decimal = <<".", "0", "0">>

\* C9 witness: a price just above 12 (it rounds to 12.00) has been drawn with
\* the decimal part ".00".
C9_Witness ==
    /\ "branded" \in pricePc /\ Floor(prix) = 12 /\ RoundCents(prix) = 1200
    /\ hasDecimal /\ decimal = <<".", "0", "0">>


(***************************************************************************)
(* mapDataToProducts (excelParser).  A cell of the sheet is undefined (a   *)
(* hole or null), the number 0, or a string; any other number behaves as   *)
(* the string String() makes of it.  A string is a sequence of characters. *)
(***************************************************************************)
Undef    == [t |-> "undef", s |-> <<>>]
Zero     == [t |-> "num", s |-> <<"0">>]
Str(s)   == [t |-> "str", s |-> s]

\* the falsy cells: undefined, null, 0 and ''
Falsy(cell) == cell.t = "undef" \/ cell.t = "num" \/ cell.s = <<>>

\* String(cell || dflt)
StringOr(cell, dflt) == IF Falsy(cell) THEN dflt ELSE cell.s

\* row[index], undefined outside the row (index counts from 0)
CellAt(row, index) == IF index >= 0 /\ index < Len(row) THEN row[index + 1] ELSE Undef

IsSpace(c) == c = " "
IsDigit(c) == \E d \in 0..9 : Digits[d + 1] = c

RECURSIVE TrimStart(_)
TrimStart(s) == IF s # <<>> /\ IsSpace(Head(s)) THEN TrimStart(Tail(s)) ELSE s

RECURSIVE TrimEnd(_)
TrimEnd(s) == IF s # <<>> /\ IsSpace(s[Len(s)]) THEN TrimEnd(DropLast(s)) ELSE s

\* String.prototype.trim
Trim(s) == TrimEnd(TrimStart(s))

\* the longest prefix of s made of digits
RECURSIVE DigitPrefix(_)
DigitPrefix(s) == IF s # <<>> /\ IsDigit(Head(s)) THEN <<Head(s)>> \o DigitPrefix(Tail(s))
                  ELSE <<>>

NaN      == [nan |-> TRUE, v |-> 0]
Num(v)   == [nan |-> FALSE, v |-> v]

HasSign(t) == t # <<>> /\ Head(t) \in {"-", "+"}
SignOf(t)  == IF t # <<>> /\ Head(t) = "-" THEN -1 ELSE 1
Unsigned(t) == IF HasSign(t) THEN Tail(t) ELSE t

\* parseInt(s): leading white space, a sign, then the digits; NaN without a digit
ParseInt(s) ==
    LET t  == TrimStart(s)
        ds == DigitPrefix(Unsigned(t))
    IN  IF ds = <<>> THEN NaN ELSE Num(SignOf(t) * StrToNat(ds))

\* the first FracDigits digits of a fraction, as a count of 10^-FracDigits
FracUnits(fp) ==
    LET kept == SubSeq(fp, 1, Min(Len(fp), FracDigits))
    IN  StrToNat(kept) * Pow(10, FracDigits - Len(kept))

\* parseFloat(s): leading white space, a sign, digits, a point and digits; NaN
\* without a digit.  The value is a count of 10^-FracDigits (PRICE_UNIT).
ParseFloat(s) ==
    LET t    == TrimStart(s)
        body == Unsigned(t)
        ip   == DigitPrefix(body)
        rest == SubSeq(body, Len(ip) + 1, Len(body))
        fp   == IF rest # <<>> /\ Head(rest) = "." THEN DigitPrefix(Tail(rest)) ELSE <<>>
    IN  IF ip = <<>> /\ fp = <<>> THEN NaN
        ELSE Num(SignOf(t) * (StrToNat(ip) * PRICE_UNIT + FracUnits(fp)))

\* parsed || dflt: NaN and 0 are falsy
NumberOr(parsed, dflt) == IF parsed.nan \/ parsed.v = 0 THEN dflt ELSE parsed.v

\* Array.prototype.indexOf: the first position (from 0) of the value, or -1
IndexOf(seq, value) ==
    IF \E k \in 1..Len(seq) : seq[k] = value
    THEN (CHOOSE k \in 1..Len(seq) : seq[k] = value /\ \A j \in 1..(k - 1) : seq[j] # value) - 1
    ELSE -1

\* Object.entries(indices): the keys in the order the object literal gives them
Fields == <<"codebar", "qte", "prix", "designation", "reference">>

\* const indices = { codebar: headers.indexOf(mapping.codebar), ... }
Indices(headers, map) == [f \in {Fields[k] : k \in 1..Len(Fields)} |-> IndexOf(headers, Str(map[f]))]

\* mutant: only the first missing column is reported
MissingColumnsFirstOnly(headers, map) ==
    LET idx  == Indices(headers, map)
        miss == SelectSeq(Fields, LAMBDA f : idx[f] = -1)
    IN  IF miss = <<>> THEN <<>> ELSE <<map[miss[1]]>>

\* Object.entries(indices).filter(([_, index]) => index === -1).map(([key]) => mapping[key])
MissingColumns(headers, map) ==
    LET idx  == Indices(headers, map)
        miss == SelectSeq(Fields, LAMBDA f : idx[f] = -1)
    IN  [k \in 1..Len(miss) |-> map[miss[k]]]

\* row && row.length > 0 && row.some(cell => cell !== null && cell !== undefined && cell !== '')
NonEmptyRow(row) ==
    /\ Len(row) > 0
    /\ \E k \in 1..Len(row) : ~(row[k].t = "undef" \/ (row[k].t = "str" /\ row[k].s = <<>>))

\* imageFiles.get(reference)
ImageOf(images, reference) ==
    IF reference \in DOMAIN images THEN images[reference] ELSE NoImage

\* the callback of .map: the product of one row, or null (a record with
\* skip = TRUE) when reference, codebar or designation is missing
RowToProduct(row, idx, images) ==
    LET reference   == Trim(StringOr(CellAt(row, idx.reference), <<>>))
        codebar     == Trim(StringOr(CellAt(row, idx.codebar), <<>>))
        designation == Trim(StringOr(CellAt(row, idx.designation), <<>>))
        qte         == NumberOr(ParseInt(StringOr(CellAt(row, idx.qte), <<"1">>)), 1)
        price       == NumberOr(ParseFloat(StringOr(CellAt(row, idx.prix), <<"0">>)), 0)
    IN  IF reference = <<>> \/ codebar = <<>> \/ designation = <<>>
        THEN [skip |-> TRUE, product |-> <<>>]
        ELSE [skip |-> FALSE,
              product |-> Product(reference, codebar, designation, qte, price,
                                  ImageOf(images, reference))]

\* Array.prototype.map
RECURSIVE MapRows(_, _, _)
MapRows(rows, idx, images) ==
    IF rows = <<>> THEN <<>>
    ELSE <<RowToProduct(Head(rows), idx, images)>> \o MapRows(Tail(rows), idx, images)

\* what a call returns or throws: threw and the missing columns of the Error,
\* or the product list
Thrown(missing)    == [threw |-> TRUE, missing |-> missing, products |-> <<>>]
Returned(prods)    == [threw |-> FALSE, missing |-> <<>>, products |-> prods]

MapDataToProducts(grid, map, images) ==
    IF Len(grid) < 2 THEN Returned(<<>>)
    ELSE LET headers  == grid[1]
             dataRows == Tail(grid)
             idx      == Indices(headers, map)
             missing  == MissingColumns(headers, map)
         IN  IF Len(missing) > 0 THEN Thrown(missing)
             ELSE LET kept   == SelectSeq(dataRows, NonEmptyRow)
                      mapped == MapRows(kept, idx, images)
                      found  == SelectSeq(mapped, LAMBDA r : ~r.skip)
                  IN  Returned([k \in 1..Len(found) |-> found[k].product])


(***************************************************************************)
(* The inputs of mapDataToProducts: a sheet without rows, or a header row  *)
(* over the columns A and B (at most two, in any order, repeats allowed)   *)
(* followed by up to MaxDataRows rows; a mapping of the five fields to the *)
(* columns A, B and C; the images of two references.                       *)
(***************************************************************************)
HeaderNames  == {<<"A">>, <<"B">>}
MappedNames  == {<<"A">>, <<"B">>, <<"C">>}
HeaderRows   == UNION {[1..n -> {Str(h) : h \in HeaderNames}] : n \in 0..2}
Mappings     == [{Fields[k] : k \in 1..Len(Fields)} -> MappedNames]

SampleRows == {
    <<>>,
    <<Str(<<"r", "1">>), Str(<<"2", ".", "5">>)>>,
    <<Str(<<" ", "r", "2", " ">>), Str(<<"-", "3">>)>>,
    <<Undef, Str(<<"7">>)>>,
    <<Zero, Str(<<"7">>)>>,
    <<Str(<<" ">>), Str(<<"x">>)>> }

DataRowLists == UNION {[1..n -> SampleRows] : n \in 0..MaxDataRows}
Grids == {<<>>} \cup {<<h>> \o rows : h \in HeaderRows, rows \in DataRowLists}

ImageFileMaps == { <<>>, (<<"r", "1">> :> <<"u", "1">>) @@ (<<"r", "9">> :> <<"u", "9">>) }

MapInit ==
    /\ mapPc = "start"
    /\ data \in Grids
    /\ mapping \in Mappings
    /\ imageFiles \in ImageFileMaps
    /\ mapResult = Returned(<<>>)
    \* the other parts are idle
    /\ products = <<>> /\ imageCache = <<>> /\ pc = "idle" /\ totalPages = 0
    /\ page = 0 /\ pageProducts = <<>> /\ i = 0 /\ docPages = 0
    /\ placed = <<>> /\ saved = 0
    /\ fitPc = "idle" /\ fitText = <<>> /\ fitMaxWidth = 0
    /\ fitResult = <<>> /\ fitAgain = <<>>
    /\ pricePc = {} /\ prix = 0 /\ priceNumber = <<>> /\ hasDecimal = FALSE
    /\ decimal = <<>> /\ priceText = <<>>
    /\ lblProduct = <<>> /\ lblImage = "none" /\ lblLoad = "none"
    /\ lblBarcodeLoad = FALSE /\ lblOps = <<>>
    /\ pvProducts = <<>> /\ currentIndex = 0 /\ pvCache = {} /\ canvas = <<>>
    /\ runs = EmptyBag /\ pvPending = FALSE /\ clicks = <<>>
    /\ currentStep = "upload" /\ excelData = <<>> /\ wzImageFiles = <<>>
    /\ wzProducts = <<>> /\ wzImageCache = <<>> /\ isLoading = FALSE
    /\ parsing = {} /\ toasts = <<>>

\* one call of mapDataToProducts(data, mapping, imageFiles)
CallMapDataToProducts ==
    /\ mapPc = "start"
    /\ mapResult' = MapDataToProducts(data, mapping, imageFiles)
    /\ mapPc' = "done"
    /\ UNCHANGED <<data, mapping, imageFiles>>
    /\ UNCHANGED <<pdfVars, fitVars, priceVars, labelVars, previewVars, wizardVars>>

MapNext == CallMapDataToProducts

SpecMap == MapInit /\ [][MapNext]_vars

\* the fields whose mapped column is not in the header row data[0] (of a sheet
\* that has one)
MissingFields ==
    {f \in DOMAIN mapping : ~(\E k \in 1..Len(data[1]) : data[1][k] = Str(mapping[f]))}

\* how often a column name is listed in the error
TimesListed(name) == Cardinality({k \in 1..Len(mapResult.missing) : mapResult.missing[k] = name})

\* the error lists the mapped column of every missing field, once per field
ListsExactlyTheMissing ==
    /\ Len(mapResult.missing) = Cardinality(MissingFields)
    /\ \A name \in MappedNames :
          TimesListed(name) = Cardinality({f \in MissingFields : mapping[f] = name})

\* C10 (as stated): for any data grid and mapping, if a mapped column is not
\* in the header row, mapDataToProducts fails with one error that lists
\* exactly the missing ones and returns no product list.  (Stated for the
\* grids that have a header row.)
C10_MissingColumnsAlwaysFail ==
    (mapPc = "done" /\ Len(data) >= 1 /\ MissingFields # {}) =>
        (mapResult.threw /\ ListsExactlyTheMissing)

\* C10 (amended): for a data grid with at least one row below the header
\* (data.length >= 2), if a mapped column is not in the header row,
\* mapDataToProducts fails with one error that lists exactly the missing
\* ones, all at once, and returns no product list, and it fails in no other
\* case; for a grid of fewer than 2 rows it returns the empty product list
\* whether or not columns are missing.
C10_MissingColumnsFail ==
    mapPc = "done" =>
        /\ (Len(data) >= 2 /\ MissingFields # {}) =>
              (mapResult.threw /\ ListsExactlyTheMissing /\ mapResult.products = <<>>)
        /\ (Len(data) >= 2 /\ MissingFields = {}) => ~mapResult.threw
        /\ Len(data) < 2 => (~mapResult.threw /\ mapResult.products = <<>>)

\* C10 witness: with the header <<A, B>> and three fields mapped to C, the
\* call has failed listing C three times.
C10_Witness ==
    /\ mapPc = "done" /\ Len(data) >= 2
    /\ data[1] = <<Str(<<"A">>), Str(<<"B">>)>>
    /\ Cardinality(MissingFields) = 3
    /\ mapResult.threw /\ mapResult.missing = <<<<"C">>, <<"C">>, <<"C">>>>

(***************************************************************************)
(* Row dropping of mapDataToProducts (RowSkipped).                         *)
(***************************************************************************)
Required == {"reference", "codebar", "designation"}

\* the cell of a data row under the column mapped to field f
FieldCell(row, f) == CellAt(row, IndexOf(data[1], Str(mapping[f])))

\* a field of a row is missing when its cell is absent or holds nothing but
\* white space: empty after trimming
MissingCell(cell) == cell.t = "undef" \/ Trim(cell.s) = <<>>

Complete(row) == \A f \in Required : ~MissingCell(FieldCell(row, f))

\* the non-empty data rows with no required field missing, in sheet order
CompleteRows == SelectSeq(Tail(data), LAMBDA row : NonEmptyRow(row) /\ Complete(row))

\* the returned products are those of the rows, one each, in the same order
ProductsAreOf(rows) ==
    /\ Len(mapResult.products) = Len(rows)
    /\ \A k \in 1..Len(rows) :
          /\ mapResult.products[k].reference = Trim(FieldCell(rows[k], "reference").s)
          /\ mapResult.products[k].codebar = Trim(FieldCell(rows[k], "codebar").s)
          /\ mapResult.products[k].designation = Trim(FieldCell(rows[k], "designation").s)

\* C11: with every mapped column present, mapDataToProducts raises no error,
\* drops exactly the data rows in which reference, barcode or designation is
\* missing (empty after trimming) and returns the products of every other
\* non-empty row, in their original relative order.
C11_DropsExactlyIncompleteRows ==
    (mapPc = "done" /\ Len(data) >= 2 /\ MissingFields = {}) =>
        (~mapResult.threw /\ ProductsAreOf(CompleteRows))

\* C11 witness: the row [0, '7'] with reference in the first column and
\* barcode and designation in the second has all three fields, and the call
\* has returned without a product for it.
C11_Witness ==
    /\ mapPc = "done" /\ ~mapResult.threw
    /\ data = <<<<Str(<<"A">>), Str(<<"B">>)>>, <<Zero, Str(<<"7">>)>>>>
    /\ mapping.reference = <<"A">> /\ mapping.codebar = <<"B">>
    /\ mapping.designation = <<"B">>
    /\ Complete(data[2])
    /\ mapResult.products = <<>>

(***************************************************************************)
(* Quantity and price of the returned products.                            *)
(***************************************************************************)
\* the rows the .map callback makes a product of: every required cell is
\* truthy and not blank
ConvertedRows ==
    SelectSeq(Tail(data), LAMBDA row :
        /\ NonEmptyRow(row)
        /\ \A f \in Required : ~Falsy(FieldCell(row, f)) /\ Trim(FieldCell(row, f).s) # <<>>)

\* the quantity or price cell is absent or empty
AbsentOrEmpty(cell) == cell.t = "undef" \/ (cell.t = "str" /\ cell.s = <<>>)

\* C12: every product returned by mapDataToProducts has a quantity qte >= 1,
\* and qte = 1 when the quantity cell of its row is absent or empty, whatever
\* the quantity cell holds.
C12_QuantityAtLeastOne ==
    (mapPc = "done" /\ ~mapResult.threw) =>
        /\ \A k \in 1..Len(mapResult.products) : mapResult.products[k].qte >= 1
        /\ Len(data) >= 2 =>
              /\ Len(mapResult.products) = Len(ConvertedRows)
              /\ \A k \in 1..Len(ConvertedRows) :
                    AbsentOrEmpty(FieldCell(ConvertedRows[k], "qte")) =>
                        mapResult.products[k].qte = 1

\* C12 witness: the row [' r2 ', '-3'] with the quantity in the second
\* column has become a product of quantity -3.
C12_Witness ==
    /\ mapPc = "done" /\ ~mapResult.threw
    /\ data = <<<<Str(<<"A">>), Str(<<"B">>)>>, <<Str(<<" ", "r", "2", " ">>), Str(<<"-", "3">>)>>>>
    /\ mapping.qte = <<"B">> /\ mapping.prix = <<"A">>
    /\ Len(mapResult.products) = 1
    /\ mapResult.products[1].reference = <<"r", "2">>
    /\ mapResult.products[1].qte = -3

\* C13: every product returned by mapDataToProducts has a price prix >= 0,
\* whatever the price cell holds.
C13_PriceNonNegative ==
    (mapPc = "done" /\ ~mapResult.threw) =>
        \A k \in 1..Len(mapResult.products) : mapResult.products[k].prix >= 0

\* C13 witness: the row [' r2 ', '-3'] with the price in the second column
\* has become a product of price -3.
C13_Witness ==
    /\ mapPc = "done" /\ ~mapResult.threw
    /\ data = <<<<Str(<<"A">>), Str(<<"B">>)>>, <<Str(<<" ", "r", "2", " ">>), Str(<<"-", "3">>)>>>>
    /\ mapping.prix = <<"B">> /\ mapping.qte = <<"A">>
    /\ Len(mapResult.products) = 1
    /\ mapResult.products[1].reference = <<"r", "2">>
    /\ mapResult.products[1].prix = -3 * PRICE_UNIT

(***************************************************************************)
(* Claims about the elements of a label in the export (checked under       *)
(* SpecPDF).                                                               *)
(***************************************************************************)
\* the positions of the elements named el in a sequence of drawing operations
Where(ops, el) == {k \in 1..Len(ops) : ops[k].el = el}

\* the text part of a label is there: one designation, one reference, one
\* price, and a quantity caption exactly when the quantity exceeds 1
TextPartDrawn(ops, product) ==
    /\ Cardinality(Where(ops, "designation")) = 1
    /\ Cardinality(Where(ops, "reference")) = 1
    /\ Cardinality(Where(ops, "price")) = 1
    /\ Cardinality(Where(ops, "quantity")) = (IF product.qte > 1 THEN 1 ELSE 0)

\* the image slot holds the placeholder: the gray box and then its caption,
\* once, and no image
PlaceholderInSlot(ops) ==
    /\ Where(ops, "image") = {}
    /\ Cardinality(Where(ops, "placeholderBox")) = 1
    /\ Cardinality(Where(ops, "placeholderCaption")) = 1
    /\ \A k \in Where(ops, "placeholderBox") : k + 1 \in Where(ops, "placeholderCaption")

\* C14: in the export, a product whose reference has no entry in the image
\* cache gets the placeholder (gray box, then the "No Image" caption) in its
\* image slot, the rest of its label (border, designation, reference, price,
\* quantity, and the barcode of an encodable text) is drawn as well, and the
\* products after it are still drawn: every product of the list has its
\* label when the export has finished.
C14_MissingImageGetsPlaceholder ==
    /\ \A k \in 1..Len(placed) :
          placed[k].product.reference \notin DOMAIN imageCache =>
              /\ PlaceholderInSlot(placed[k].ops)
              /\ Where(placed[k].ops, "border") = {1}
              /\ TextPartDrawn(placed[k].ops, placed[k].product)
              /\ Encodable(placed[k].product.codebar) =>
                     Cardinality(Where(placed[k].ops, "barcode")) = 1
    /\ pc = "done" => DrawnProducts = products

\* C14 witness: with images cached for r1, r2 and r3 only, an export of 49
\* products has finished; its first product (r4) had no cache entry, got
\* the placeholder, and labels follow it on the same page and on the third.
C14_Witness ==
    /\ pc = "done" /\ Len(placed) = 2 * LABELS_PER_PAGE + 1
    /\ DOMAIN imageCache = {<<"r", "1">>, <<"r", "2">>, <<"r", "3">>}
    /\ placed[1].product.reference = <<"r", "4">>
    /\ PlaceholderInSlot(placed[1].ops)
    /\ placed[2].docPage = 1 /\ placed[2].product.reference = <<"r", "5">>
    /\ placed[Len(placed)].docPage = 3

(***************************************************************************)
(* The label templates.  Each renderer is the sequence of drawing          *)
(* operations it issues for one product: Compact in the export             *)
(* (DrawLabelToPDF, above) and in the preview, Branded-Image in the        *)
(* export, Branded-NoImage in the export and in the preview.               *)
(***************************************************************************)
\* const width = 264: the preview canvas, in pixels, for the 70 mm label
PREVIEW_WIDTH == 264

\* ctx.measureText(t).width in canvas pixels is PxPerUnit * Measure(t)
PxPerUnit == PREVIEW_WIDTH \div LABEL_WIDTH

\* the truncation of the previews, against a width in canvas pixels
PreviewTruncate(text, maxPx) == Truncate(text, maxPx \div PxPerUnit)

\* const maxDesignationWidth = width - 85
PreviewMaxDesignationWidth == PREVIEW_WIDTH - 85

\* the image block of the compact preview.  load is what the try block gave:
\* "cached" (imageCache.has), "loads" (loadImage resolved) or "fails"
\* (loadImage rejected, caught); without product.image nothing is loaded.
DrawPreviewImage(product, load) ==
    IF product.image # NoImage /\ load \in {"cached", "loads"}
    THEN <<Op("image", product.reference)>>
    ELSE DrawPlaceholderImage

\* drawLabel from the border to the quantity caption
DrawPreviewBody(product, load) ==
    DrawPreviewImage(product, load)
    \o <<Op("designation", PreviewTruncate(product.designation, PreviewMaxDesignationWidth)),
         Op("reference", product.reference),
         Op("price", PriceText(product.prix))>>
    \o (IF product.qte > 1 THEN <<Op("quantity", NatToStr(product.qte))>> ELSE <<>>)

\* generateBarcode(code): '' when JsBarcode throws
BarcodeDataUrl(product) == IF Encodable(product.codebar) THEN product.codebar ELSE <<>>

\* the barcode block of the compact preview: the symbol when it was generated
\* and its image loaded, then the codebar text
DrawPreviewBarcode(product, barcodeLoads) ==
    (IF BarcodeDataUrl(product) # <<>> /\ barcodeLoads
     THEN <<Op("barcode", product.codebar)>> ELSE <<>>)
    \o <<Op("barcodeText", product.codebar)>>

\* drawLabel of the compact preview, from the cleared canvas on
DrawLabel(product, load, barcodeLoads) ==
    <<Op("border", <<>>)>>
    \o DrawPreviewBody(product, load)
    \o DrawPreviewBarcode(product, barcodeLoads)

\* the wordmark, top left: 'POINT' over '50'
DrawWordmark == <<Op("wordmark", <<"P", "O", "I", "N", "T">>), Op("wordmark", <<"5", "0">>)>>

\* the decomposed price: number, euro sign, and the decimals of a price that
\* is not whole
DrawBrandedPriceOps(product) ==
    <<Op("priceNumber", PriceNumber(product.prix)), Op("euro", <<>>)>>
    \o (IF HasDecimalPart(product.prix)
        THEN <<Op("decimal", DecimalPart(product.prix))>> ELSE <<>>)

\* the quantity caption of the branded templates
DrawBrandedQuantity(product) ==
    IF product.qte > 1 THEN <<Op("quantity", NatToStr(product.qte))>> ELSE <<>>

\* const maxDesignationWidth = contentWidth - 4
BrandedMaxDesignationWidth == ContentWidth - 4

\* const maxWidth = width - 20
BrandedPreviewMaxWidth == PREVIEW_WIDTH - 20

\* drawLabelToPDF of the Branded-Image template
DrawBrandedImageToPDF(product, cache) ==
    <<Op("border", <<>>)>>
    \o DrawWordmark
    \o DrawProductImage(product, cache)
    \o <<Op("refLabel", <<>>), Op("reference", product.reference)>>
    \o DrawBarcode(product)
    \o <<Op("designation", Truncate(product.designation, BrandedMaxDesignationWidth))>>
    \o DrawBrandedPriceOps(product)
    \o DrawBrandedQuantity(product)

\* the codebar of the Branded-NoImage template: plain text under the reference
DrawBrandedCodebar(product) == <<Op("barcodeText", product.codebar)>>

\* drawLabelToPDF of the Branded-NoImage template
DrawBrandedNoImageToPDF(product) ==
    <<Op("border", <<>>)>>
    \o DrawWordmark
    \o <<Op("refLabel", <<>>), Op("reference", product.reference)>>
    \o DrawBrandedCodebar(product)
    \o <<Op("designation", Truncate(product.designation, BrandedMaxDesignationWidth))>>
    \o DrawBrandedPriceOps(product)
    \o DrawBrandedQuantity(product)

\* drawLabel of the Branded-NoImage preview, from the cleared canvas on
DrawBrandedLabel(product) ==
    <<Op("border", <<>>)>>
    \o DrawWordmark
    \o <<Op("refLabel", <<>>), Op("reference", product.reference)>>
    \o DrawBrandedCodebar(product)
    \o <<Op("designation", PreviewTruncate(product.designation, BrandedPreviewMaxWidth))>>
    \o DrawBrandedPriceOps(product)
    \o DrawBrandedQuantity(product)

(***************************************************************************)
(* One label under each template.  The inputs: a product of the catalogue, *)
(* what the export finds for its image (no cache entry, an image that is   *)
(* converted and added, a canvas without 2d context, an exception in the   *)
(* try block), what the preview's try block gives (image in its cache,     *)
(* loadImage resolved, loadImage rejected) and whether the barcode image   *)
(* of the preview loads.                                                   *)
(***************************************************************************)
ExportImageOutcomes  == {"none", "ok", "noctx", "throws"}
PreviewImageOutcomes == {"cached", "loads", "fails"}

\* the imageCache argument of the export for the one product
LabelCache == IF lblImage = "none" THEN <<>> ELSE (lblProduct.reference :> lblImage)

LabelInit ==
    /\ lblProduct \in {Catalogue[k] : k \in 1..Len(Catalogue)}
    /\ lblImage \in ExportImageOutcomes
    /\ lblLoad \in PreviewImageOutcomes
    /\ lblBarcodeLoad \in BOOLEAN
    /\ lblOps = <<>>
    \* the other parts are idle
    /\ products = <<>> /\ imageCache = <<>> /\ pc = "idle" /\ totalPages = 0
    /\ page = 0 /\ pageProducts = <<>> /\ i = 0 /\ docPages = 0
    /\ placed = <<>> /\ saved = 0
    /\ fitPc = "idle" /\ fitText = <<>> /\ fitMaxWidth = 0
    /\ fitResult = <<>> /\ fitAgain = <<>>
    /\ pricePc = {} /\ prix = 0 /\ priceNumber = <<>> /\ hasDecimal = FALSE
    /\ decimal = <<>> /\ priceText = <<>>
    /\ mapPc = "idle" /\ data = <<>> /\ mapping = <<>> /\ imageFiles = <<>>
    /\ mapResult = <<>>
    /\ pvProducts = <<>> /\ currentIndex = 0 /\ pvCache = {} /\ canvas = <<>>
    /\ runs = EmptyBag /\ pvPending = FALSE /\ clicks = <<>>
    /\ currentStep = "upload" /\ excelData = <<>> /\ wzImageFiles = <<>>
    /\ wzProducts = <<>> /\ wzImageCache = <<>> /\ isLoading = FALSE
    /\ parsing = {} /\ toasts = <<>>

\* Compact, export: drawLabelToPDF
DrawCompactLabelToPDF ==
    /\ "compactPDF" \notin DOMAIN lblOps
    /\ lblOps' = lblOps @@ ("compactPDF" :> DrawLabelToPDF(lblProduct, LabelCache))
    /\ UNCHANGED <<lblProduct, lblImage, lblLoad, lblBarcodeLoad>>
    /\ UNCHANGED <<pdfVars, fitVars, priceVars, mapVars, previewVars, wizardVars>>

\* Compact, preview: drawLabel
DrawCompactLabel ==
    /\ "compactPreview" \notin DOMAIN lblOps
    /\ lblOps' = lblOps @@ ("compactPreview" :> DrawLabel(lblProduct, lblLoad, lblBarcodeLoad))
    /\ UNCHANGED <<lblProduct, lblImage, lblLoad, lblBarcodeLoad>>
    /\ UNCHANGED <<pdfVars, fitVars, priceVars, mapVars, previewVars, wizardVars>>

\* Branded-Image, export: drawLabelToPDF
DrawBrandedImageLabelToPDF ==
    /\ "brandedImagePDF" \notin DOMAIN lblOps
    /\ lblOps' = lblOps @@ ("brandedImagePDF" :> DrawBrandedImageToPDF(lblProduct, LabelCache))
    /\ UNCHANGED <<lblProduct, lblImage, lblLoad, lblBarcodeLoad>>
    /\ UNCHANGED <<pdfVars, fitVars, priceVars, mapVars, previewVars, wizardVars>>

\* Branded-NoImage, export: drawLabelToPDF
DrawBrandedNoImageLabelToPDF ==
    /\ "brandedNoImagePDF" \notin DOMAIN lblOps
    /\ lblOps' = lblOps @@ ("brandedNoImagePDF" :> DrawBrandedNoImageToPDF(lblProduct))
    /\ UNCHANGED <<lblProduct, lblImage, lblLoad, lblBarcodeLoad>>
    /\ UNCHANGED <<pdfVars, fitVars, priceVars, mapVars, previewVars, wizardVars>>

\* Branded-NoImage, preview: drawLabel
DrawBrandedNoImageLabel ==
    /\ "brandedNoImagePreview" \notin DOMAIN lblOps
    /\ lblOps' = lblOps @@ ("brandedNoImagePreview" :> DrawBrandedLabel(lblProduct))
    /\ UNCHANGED <<lblProduct, lblImage, lblLoad, lblBarcodeLoad>>
    /\ UNCHANGED <<pdfVars, fitVars, priceVars, mapVars, previewVars, wizardVars>>

LabelNext ==
    \/ DrawCompactLabelToPDF
    \/ DrawCompactLabel
    \/ DrawBrandedImageLabelToPDF
    \/ DrawBrandedNoImageLabelToPDF
    \/ DrawBrandedNoImageLabel

SpecLabel == LabelInit /\ [][LabelNext]_vars

(***************************************************************************)
(* Claims about the templates (checked under SpecLabel).                   *)
(***************************************************************************)
\* the renderers of the templates that have an image slot
ImageSlotRenderers == {"compactPDF", "compactPreview", "brandedImagePDF"}

\* the image slot holds exactly one of the image and the placeholder (the
\* gray box followed by its caption)
OneOfImageOrPlaceholder(ops) ==
    /\ Cardinality(Where(ops, "image")) + Cardinality(Where(ops, "placeholderBox")) = 1
    /\ Cardinality(Where(ops, "placeholderCaption")) = Cardinality(Where(ops, "placeholderBox"))
    /\ \A k \in Where(ops, "placeholderBox") : k + 1 \in Where(ops, "placeholderCaption")

\* the content of a label other than its image: designation, reference,
\* price (whole or decomposed), the quantity caption when qte > 1, and the
\* barcode symbol when the renderer could make it
RemainingContentDrawn(r, ops) ==
    /\ Cardinality(Where(ops, "designation")) = 1
    /\ Cardinality(Where(ops, "reference")) = 1
    /\ Cardinality(Where(ops, "price")) + Cardinality(Where(ops, "priceNumber")) = 1
    /\ Cardinality(Where(ops, "quantity")) = (IF lblProduct.qte > 1 THEN 1 ELSE 0)
    /\ (Encodable(lblProduct.codebar) /\ (r = "compactPreview" => lblBarcodeLoad)) =>
           Cardinality(Where(ops, "barcode")) = 1

\* C15: in the preview and in the export, whatever happens while the product
\* image is loaded or drawn, every label with an image slot ends with exactly
\* one of image and placeholder drawn, and the remaining content of the label
\* (designation, reference, price, quantity, barcode) is drawn.
C15_ImageOrPlaceholderAlways ==
    \A r \in DOMAIN lblOps \cap ImageSlotRenderers :
        /\ OneOfImageOrPlaceholder(lblOps[r])
        /\ RemainingContentDrawn(r, lblOps[r])

\* C15 witness: the export has drawn the compact label of a product whose
\* image is cached while the conversion canvas gave no 2d context: the
\* label has neither image nor placeholder, and the rest of its content.
C15_Witness ==
    /\ "compactPDF" \in DOMAIN lblOps /\ lblImage = "noctx"
    /\ Where(lblOps["compactPDF"], "image") = {}
    /\ Where(lblOps["compactPDF"], "placeholderBox") = {}
    /\ RemainingContentDrawn("compactPDF", lblOps["compactPDF"])

\* the barcode region of a label is left out: no symbol, and no caption that
\* shows a text
BarcodeRegionOmitted(ops) ==
    /\ Where(ops, "barcode") = {}
    /\ \A k \in Where(ops, "barcodeText") : ops[k].arg = <<>>

\* C16: when the barcode text of a product is empty or cannot be encoded,
\* the Compact template omits both the barcode symbol and the barcode-text
\* caption of its label, in the preview and in the export alike, and still
\* draws designation, price and reference.
C16_FailedBarcodeOmitsSymbolAndCaption ==
    \A r \in DOMAIN lblOps \cap {"compactPDF", "compactPreview"} :
        ~Encodable(lblProduct.codebar) =>
            /\ BarcodeRegionOmitted(lblOps[r])
            /\ TextPartDrawn(lblOps[r], lblProduct)

\* C16 witness: for the product with the barcode text '7é' the export has
\* left out symbol and caption while the preview has drawn the caption '7é'
\* without a symbol.
C16_Witness ==
    /\ {"compactPDF", "compactPreview"} \subseteq DOMAIN lblOps
    /\ lblProduct.codebar = <<"7", "é">>
    /\ BarcodeRegionOmitted(lblOps["compactPDF"])
    /\ Where(lblOps["compactPreview"], "barcode") = {}
    /\ \E k \in Where(lblOps["compactPreview"], "barcodeText") :
          lblOps["compactPreview"][k].arg = <<"7", "é">>

\* the place of an element in the fixed sequence of the Compact template
\* (0 for an element that is not of the template)
CompactStage(el) ==
    CASE el = "border"                     -> 1
      [] el \in {"image", "placeholderBox"} -> 2
      [] el = "placeholderCaption"         -> 3
      [] el = "designation"                -> 4
      [] el = "reference"                  -> 5
      [] el = "price"                      -> 6
      [] el = "quantity"                   -> 7
      [] el = "barcode"                    -> 8
      [] el = "barcodeText"                -> 9
      [] OTHER                             -> 0

\* the operations begin with the border and follow the fixed sequence, none
\* of them twice
InCompactOrder(ops) ==
    /\ ops # <<>> /\ ops[1].el = "border"
    /\ \A k \in 1..Len(ops) : CompactStage(ops[k].el) > 0
    /\ \A k \in 1..(Len(ops) - 1) : CompactStage(ops[k].el) < CompactStage(ops[k + 1].el)

\* a price text with two decimals and the currency suffix: d+ '.' d d ' €'
IsFixed2Price(t) ==
    /\ Len(t) >= 6
    /\ t[Len(t)] = "€" /\ t[Len(t) - 1] = " "
    /\ IsDigit(t[Len(t) - 2]) /\ IsDigit(t[Len(t) - 3])
    /\ t[Len(t) - 4] = "."
    /\ \A k \in 1..(Len(t) - 5) : IsDigit(t[k])

NoImageRenderers == {"brandedNoImagePDF", "brandedNoImagePreview"}

\* C18: the Branded-NoImage template draws no product image and no
\* placeholder, draws the barcode symbol of every product whose barcode text
\* can be encoded, and shows reference and barcode text as plain text.
C18_NoImageTemplateDrawsBarcode ==
    \A r \in DOMAIN lblOps \cap NoImageRenderers :
        /\ Where(lblOps[r], "image") = {}
        /\ Where(lblOps[r], "placeholderBox") = {}
        /\ Where(lblOps[r], "placeholderCaption") = {}
        /\ Encodable(lblProduct.codebar) => Cardinality(Where(lblOps[r], "barcode")) = 1
        /\ Cardinality(Where(lblOps[r], "reference")) = 1
        /\ Cardinality(Where(lblOps[r], "barcodeText")) = 1

\* C18 witness: export and preview have drawn the Branded-NoImage label of
\* the product with the barcode text '123': reference and barcode text are
\* there as text, and no barcode symbol.
C18_Witness ==
    /\ NoImageRenderers \subseteq DOMAIN lblOps
    /\ lblProduct.codebar = <<"1", "2", "3">> /\ Encodable(lblProduct.codebar)
    /\ \A r \in NoImageRenderers :
          /\ Where(lblOps[r], "barcode") = {}
          /\ \E k \in Where(lblOps[r], "barcodeText") : lblOps[r][k].arg = <<"1", "2", "3">>

(***************************************************************************)
(* LabelPreview (Compact): the component state, the navigation handlers    *)
(* and drawLabel, which is suspended at loadImage(currentProduct.image)    *)
(* and at loadImage(barcodeDataUrl).  Every drawing operation on the       *)
(* canvas carries the index of the product whose drawLabel call issued it. *)
(* The canvas of the component is mounted and gives its 2d context.        *)
(***************************************************************************)
\* mutant: nextLabel stops at the last product instead of wrapping
NextIndexClamped(index, count) == IF index + 1 < count THEN index + 1 ELSE index

\* (prev + 1) % products.length
NextIndex(index, count) == (index + 1) % count

\* (prev - 1 + products.length) % products.length
PrevIndex(index, count) == (index - 1 + count) % count

\* the sources whose Image fires onerror: the file of one product image is
\* damaged, and the image of one barcode does not load
FailingSources == {<<"u", "4">>, <<"9">>}

\* the operations a drawLabel call for products[index] issues
Tag(index, ops) == [k \in 1..Len(ops) |-> [op |-> ops[k], of |-> index]]

\* a drawLabel call for products[index], suspended at an await
Run(index, at) == SetToBag({[index |-> index, at |-> at]})

\* the barcode block needs loadImage(barcodeDataUrl)
AwaitsBarcode(index) == BarcodeDataUrl(pvProducts[index + 1]) # <<>>

\* the try block of the image needs loadImage(currentProduct.image)
AwaitsImage(index) ==
    /\ pvProducts[index + 1].image # NoImage
    /\ pvProducts[index + 1].reference \notin pvCache

\* drawLabel from its start to its first await (or to its end): the canvas
\* is reset and the border drawn; without an image to load the label goes
\* on to the barcode
StartDrawLabel(index) ==
    LET product == pvProducts[index + 1]
        body    == <<Op("border", <<>>)>> \o DrawPreviewBody(product, "cached")
    IN  IF AwaitsImage(index)
        THEN /\ canvas' = Tag(index, <<Op("border", <<>>)>>)
             /\ runs' = runs (+) Run(index, "image")
        ELSE IF AwaitsBarcode(index)
        THEN /\ canvas' = Tag(index, body)
             /\ runs' = runs (+) Run(index, "barcode")
        ELSE /\ canvas' = Tag(index, body \o DrawPreviewBarcode(product, FALSE))
             /\ runs' = runs

\* drawLabel from the await of the image to the await of the barcode image
\* (or to its end)
ResumeAfterImage(index, load) ==
    LET product == pvProducts[index + 1]
        body    == DrawPreviewBody(product, load)
    IN  IF AwaitsBarcode(index)
        THEN /\ canvas' = canvas \o Tag(index, body)
             /\ runs' = (runs (-) Run(index, "image")) (+) Run(index, "barcode")
        ELSE /\ canvas' = canvas \o Tag(index, body \o DrawPreviewBarcode(product, FALSE))
             /\ runs' = runs (-) Run(index, "image")

\* drawLabel from the await of the barcode image to its end
ResumeAfterBarcode(index, barcodeLoads) ==
    /\ canvas' = canvas \o Tag(index, DrawPreviewBarcode(pvProducts[index + 1], barcodeLoads))
    /\ runs' = runs (-) Run(index, "barcode")

\* the products whose drawLabel call is suspended at the await
SuspendedAt(at) == {r.index : r \in {s \in BagToSet(runs) : s.at = at}}

PreviewInit ==
    /\ \E n \in 1..MaxPreviewProducts, stride \in Strides, offset \in Offsets :
           pvProducts = ProductList(n, stride, offset)
    /\ currentIndex = 0
    /\ pvCache = {}
    /\ canvas = <<>>
    /\ runs = EmptyBag
    /\ pvPending = TRUE
    /\ clicks = <<>>
    \* the other parts are idle
    /\ products = <<>> /\ imageCache = <<>> /\ pc = "idle" /\ totalPages = 0
    /\ page = 0 /\ pageProducts = <<>> /\ i = 0 /\ docPages = 0
    /\ placed = <<>> /\ saved = 0
    /\ fitPc = "idle" /\ fitText = <<>> /\ fitMaxWidth = 0
    /\ fitResult = <<>> /\ fitAgain = <<>>
    /\ pricePc = {} /\ prix = 0 /\ priceNumber = <<>> /\ hasDecimal = FALSE
    /\ decimal = <<>> /\ priceText = <<>>
    /\ mapPc = "idle" /\ data = <<>> /\ mapping = <<>> /\ imageFiles = <<>>
    /\ mapResult = <<>>
    /\ lblProduct = <<>> /\ lblImage = "none" /\ lblLoad = "none"
    /\ lblBarcodeLoad = FALSE /\ lblOps = <<>>
    /\ currentStep = "upload" /\ excelData = <<>> /\ wzImageFiles = <<>>
    /\ wzProducts = <<>> /\ wzImageCache = <<>> /\ isLoading = FALSE
    /\ parsing = {} /\ toasts = <<>>

\* useEffect(() => { drawLabel(); }, [currentProduct, imageCache]) after the
\* first render and after a render that setImageCache caused
RunEffect ==
    /\ pvPending
    /\ pvPending' = FALSE
    /\ StartDrawLabel(currentIndex)
    /\ UNCHANGED <<pvProducts, currentIndex, pvCache, clicks>>
    /\ UNCHANGED <<pdfVars, fitVars, priceVars, mapVars, labelVars, wizardVars>>

\* the click on the next button: setCurrentIndex, and with a new
\* currentProduct the render and its effect
NextLabel ==
    /\ Len(clicks) < MaxClicks /\ BagCardinality(runs) < MaxSuspended
    /\ currentIndex' = NextIndex(currentIndex, Len(pvProducts))
    /\ clicks' = Append(clicks, [handler |-> "nextLabel", from |-> currentIndex])
    /\ IF currentIndex' # currentIndex
       THEN pvPending' = FALSE /\ StartDrawLabel(currentIndex')
       ELSE UNCHANGED <<canvas, runs, pvPending>>
    /\ UNCHANGED <<pvProducts, pvCache>>
    /\ UNCHANGED <<pdfVars, fitVars, priceVars, mapVars, labelVars, wizardVars>>

\* the click on the previous button
PrevLabel ==
    /\ Len(clicks) < MaxClicks /\ BagCardinality(runs) < MaxSuspended
    /\ currentIndex' = PrevIndex(currentIndex, Len(pvProducts))
    /\ clicks' = Append(clicks, [handler |-> "prevLabel", from |-> currentIndex])
    /\ IF currentIndex' # currentIndex
       THEN pvPending' = FALSE /\ StartDrawLabel(currentIndex')
       ELSE UNCHANGED <<canvas, runs, pvPending>>
    /\ UNCHANGED <<pvProducts, pvCache>>
    /\ UNCHANGED <<pdfVars, fitVars, priceVars, mapVars, labelVars, wizardVars>>

\* img.onload of a product image: the call stores the image in the cache
\* (a new Map, so the component renders again) and goes on drawing
ImageLoaded ==
    /\ \E index \in SuspendedAt("image") :
          /\ pvProducts[index + 1].image \notin FailingSources
          /\ pvCache' = pvCache \cup {pvProducts[index + 1].reference}
          /\ pvPending' = TRUE
          /\ ResumeAfterImage(index, "loads")
    /\ UNCHANGED <<pvProducts, currentIndex, clicks>>
    /\ UNCHANGED <<pdfVars, fitVars, priceVars, mapVars, labelVars, wizardVars>>

\* img.onerror of a product image: caught, the call goes on with the placeholder
ImageLoadFailed ==
    /\ \E index \in SuspendedAt("image") :
          /\ pvProducts[index + 1].image \in FailingSources
          /\ ResumeAfterImage(index, "fails")
    /\ UNCHANGED <<pvProducts, currentIndex, pvCache, pvPending, clicks>>
    /\ UNCHANGED <<pdfVars, fitVars, priceVars, mapVars, labelVars, wizardVars>>

\* img.onload of the barcode image: the symbol, then the codebar text
BarcodeLoaded ==
    /\ \E index \in SuspendedAt("barcode") :
          /\ BarcodeDataUrl(pvProducts[index + 1]) \notin FailingSources
          /\ ResumeAfterBarcode(index, TRUE)
    /\ UNCHANGED <<pvProducts, currentIndex, pvCache, pvPending, clicks>>
    /\ UNCHANGED <<pdfVars, fitVars, priceVars, mapVars, labelVars, wizardVars>>

\* img.onerror of the barcode image: caught, the codebar text alone
BarcodeLoadFailed ==
    /\ \E index \in SuspendedAt("barcode") :
          /\ BarcodeDataUrl(pvProducts[index + 1]) \in FailingSources
          /\ ResumeAfterBarcode(index, FALSE)
    /\ UNCHANGED <<pvProducts, currentIndex, pvCache, pvPending, clicks>>
    /\ UNCHANGED <<pdfVars, fitVars, priceVars, mapVars, labelVars, wizardVars>>

PreviewNext ==
    \/ RunEffect
    \/ NextLabel
    \/ PrevLabel
    \/ ImageLoaded
    \/ ImageLoadFailed
    \/ BarcodeLoaded
    \/ BarcodeLoadFailed

SpecPreview == PreviewInit /\ [][PreviewNext]_vars

(***************************************************************************)
(* Claims about the preview (checked under SpecPreview).                   *)
(***************************************************************************)
\* the number of products of the preview
Count == Len(pvProducts)

\* the index the k-th click led to
IndexAfter(k) == IF k = Len(clicks) THEN currentIndex ELSE clicks[k + 1].from

\* the clicks k..(k + n - 1) are all of the one handler
AllOf(handler, k, n) ==
    /\ k + n - 1 <= Len(clicks)
    /\ \A j \in k..(k + n - 1) : clicks[j].handler = handler

\* C19: with count >= 1 products the index stays in 0..count-1; nextLabel
\* leads from index to (index + 1) mod count and prevLabel to
\* (index - 1 + count) mod count; prevLabel after nextLabel, and nextLabel
\* after prevLabel, lead back to the index before them, and count nextLabel
\* clicks in a row lead back to the index they started from.
C19_NavigationWraps ==
    /\ Count >= 1
    /\ currentIndex \in 0..(Count - 1)
    /\ \A k \in 1..Len(clicks) :
          /\ clicks[k].from \in 0..(Count - 1)
          /\ clicks[k].handler = "nextLabel" =>
                /\ clicks[k].from < Count - 1 => IndexAfter(k) = clicks[k].from + 1
                /\ clicks[k].from = Count - 1 => IndexAfter(k) = 0
          /\ clicks[k].handler = "prevLabel" =>
                /\ clicks[k].from > 0 => IndexAfter(k) = clicks[k].from - 1
                /\ clicks[k].from = 0 => IndexAfter(k) = Count - 1
          /\ (k < Len(clicks) /\ clicks[k].handler # clicks[k + 1].handler) =>
                IndexAfter(k + 1) = clicks[k].from
          /\ AllOf("nextLabel", k, Count) => IndexAfter(k + Count - 1) = clicks[k].from

\* C19 witness: with three products, three nextLabel clicks have led from
\* index 0 over 1 and 2 back to 0, and a prevLabel click from there to 2.
C19_Witness ==
    /\ Count = 3 /\ Len(clicks) = 4
    /\ AllOf("nextLabel", 1, 3)
    /\ clicks[1].from = 0 /\ clicks[2].from = 1 /\ clicks[3].from = 2
    /\ clicks[4] = [handler |-> "prevLabel", from |-> 0]
    /\ currentIndex = 2

\* C20: the canvas holds only drawing operations of the label of the
\* currently selected product: once the redraw for the current product has
\* started, no operation of a drawLabel call for another product is applied
\* to the canvas, whatever the order of clicks, image loads and barcode-image
\* loads.
C20_CanvasShowsCurrentLabelOnly ==
    \A k \in 1..Len(canvas) : pvProducts[canvas[k].of + 1] = pvProducts[currentIndex + 1]

\* C20 witness: every drawLabel call has finished and no effect is pending,
\* the second product is selected and its label is on the canvas, from the
\* border on, with the barcode text of the first product drawn over it.
C20_Witness ==
    /\ runs = EmptyBag /\ ~pvPending
    /\ currentIndex = 1
    /\ pvProducts[1].codebar # pvProducts[2].codebar
    /\ canvas # <<>> /\ canvas[1] = [op |-> Op("border", <<>>), of |-> 1]
    /\ \E k \in 1..Len(canvas) :
          canvas[k] = [op |-> Op("barcodeText", pvProducts[1].codebar), of |-> 0]

(***************************************************************************)
(* The order of the steps of generatePDF (checked under SpecPDF).          *)
(***************************************************************************)
\* the label a step of the export has drawn: the one call of drawLabelToPDF
\* that `placed` has gained
LastPlaced == placed'[Len(placed')]

\* one step draws at most one label, and it is the label of the next product
\* of the input, drawn on the page that is current, before pdf.save
DrawsNextLabelOnly ==
    placed' # placed =>
        /\ Len(placed') = Len(placed) + 1
        /\ SubSeq(placed', 1, Len(placed)) = placed
        /\ LastPlaced.product = products[Len(placed) + 1]
        /\ LastPlaced.docPage = docPages /\ docPages' = docPages
        /\ saved = 0 /\ saved' = 0

\* a page is added (after the first one, which new jsPDF() brings) only when
\* every label of the pages before it has been drawn
AddsPageAfterItsLabels ==
    docPages' # docPages =>
        \/ docPages = 0 /\ docPages' = 1 /\ placed = <<>>
        \/ /\ docPages' = docPages + 1
           /\ Len(placed) = docPages * LABELS_PER_PAGE
           /\ \A k \in 1..Len(placed) : placed[k].docPage <= docPages

\* pdf.save is called when every label has been drawn, and not again
SavesOnceAtTheEnd ==
    saved' # saved =>
        /\ saved = 0 /\ saved' = 1
        /\ DrawnProducts = products
        /\ placed' = placed /\ docPages' = docPages

\* C21: during export the labels are drawn in input order and one at a time
\* (a step draws one label, the next of the input, all earlier ones being
\* complete), every label of page p is drawn before page p+1 is added, and
\* pdf.save is called exactly once, after the last label has been drawn.
C21_SequentialExport ==
    /\ [](/\ saved \in {0, 1}
          /\ (pc = "done") <=> (saved = 1)
          /\ \A k \in 1..Len(placed) :
                placed[k].docPage = ((k - 1) \div LABELS_PER_PAGE) + 1)
    /\ [][DrawsNextLabelOnly /\ AddsPageAfterItsLabels /\ SavesOnceAtTheEnd]_vars

\* C21 witness: an export over three pages has finished and saved, of a list
\* whose neighbours differ.
C21_Witness ==
    /\ pc = "done" /\ saved = 1 /\ docPages = 3
    /\ Len(placed) = Len(products) /\ products[1] # products[2]

(***************************************************************************)
(* Preview against export, template by template (checked under SpecLabel). *)
(***************************************************************************)
\* the logical elements of a label, in the order they were drawn
Elements(ops) == [k \in 1..Len(ops) |-> ops[k].el]

\* the preview renderer of each template and its export renderer
SurfacePairs == {<<"compactPreview", "compactPDF">>,
                 <<"brandedNoImagePreview", "brandedNoImagePDF">>}

\* image resolution came out the same way on both surfaces: an image was
\* found and could be drawn on both, or none was found on either; the
\* barcode, generated from the same text on both, is not lost on the way to
\* the canvas of the preview
SameOutcomes ==
    /\ \/ lblImage = "ok" /\ lblProduct.image # NoImage /\ lblLoad \in {"cached", "loads"}
       \/ lblImage = "none" /\ (lblProduct.image = NoImage \/ lblLoad = "fails")
    /\ lblBarcodeLoad

\* C23: for the same product, the same template and the same outcomes of
\* image resolution and barcode generation, the preview renderer and the
\* export renderer emit the same sequence of logical label elements.
C23_PreviewMatchesExport ==
    \A pair \in SurfacePairs :
        ({pair[1], pair[2]} \subseteq DOMAIN lblOps /\ SameOutcomes) =>
            Elements(lblOps[pair[1]]) = Elements(lblOps[pair[2]])

\* C23 witness: the compact label of a product whose barcode text '7é' cannot
\* be encoded, its image resolved on both surfaces: the export draws no barcode
\* text, the preview ends with the barcode text.
C23_Witness ==
    /\ {"compactPreview", "compactPDF"} \subseteq DOMAIN lblOps /\ SameOutcomes
    /\ lblProduct.codebar = <<"7", "é">> /\ lblImage = "ok"
    /\ "barcodeText" \notin {Elements(lblOps["compactPDF"])[k] : k \in 1..Len(lblOps["compactPDF"])}
    /\ Elements(lblOps["compactPreview"])[Len(lblOps["compactPreview"])] = "barcodeText"

(***************************************************************************)
(* PriceLabelGenerator: the wizard.  Its state, the handlers it passes to  *)
(* FileUpload, ColumnMapper and LabelPreview, and the handlers of those    *)
(* components that call them.  A handler is enabled while the component    *)
(* that owns its button is rendered and the button is not disabled.        *)
(***************************************************************************)
\* useState<...|null>(null)
Null == <<>>

\* file.name.endsWith('.xlsx') || file.name.endsWith('.xls')
ValidExcelName(name) ==
    LET EndsWith(s, suffix) ==
            Len(s) >= Len(suffix) /\ SubSeq(s, Len(s) - Len(suffix) + 1, Len(s)) = suffix
    IN  EndsWith(name, <<".", "x", "l", "s", "x">>) \/ EndsWith(name, <<".", "x", "l", "s">>)

\* parseExcelFile, as what its promise settles to: rejected by reader.onerror,
\* by XLSX.read throwing or by an empty sheet, or resolved with
\* { data: jsonData, columns } where a column is col?.toString() || ''
ParseExcelFile(file) ==
    LET Rejected(message) == [rejected |-> TRUE, message |-> message, value |-> Null]
        Resolved(value)   == [rejected |-> FALSE, message |-> "", value |-> value]
        ColumnName(cell)  ==
            IF cell.t = "undef" THEN <<>> ELSE IF cell.t = "zero" THEN <<"0">> ELSE cell.s
    IN  IF ~file.readable THEN Rejected("Error reading file")
        ELSE IF ~file.workbook THEN Rejected("Error parsing Excel file")
        ELSE IF Len(file.sheet) = 0 THEN Rejected("Excel file is empty")
        ELSE Resolved([data |-> file.sheet,
                       columns |-> [k \in 1..Len(file.sheet[1]) |->
                                       ColumnName(file.sheet[1][k])]])

\* filename.replace(/\.[^/.]+$/, ''): the last dot and what follows it are
\* removed when at least one character follows and none of them is a slash
RemoveExtension(name) ==
    LET dots == {k \in 1..Len(name) : name[k] = "."}
    IN  IF dots = {} THEN name
        ELSE LET last == CHOOSE k \in dots : \A j \in dots : j <= k
             IN  IF last < Len(name) /\ \A j \in (last + 1)..Len(name) : name[j] # "/"
                 THEN SubSeq(name, 1, last - 1)
                 ELSE name

\* processImageFiles: the files whose type starts with 'image/', each under
\* its name without extension; a later file replaces an earlier one
RECURSIVE ProcessImageFiles(_)
ProcessImageFiles(files) ==
    IF files = <<>> THEN <<>>
    ELSE LET file   == files[Len(files)]
             before == ProcessImageFiles(SubSeq(files, 1, Len(files) - 1))
             prefix == <<"i", "m", "a", "g", "e", "/">>
         IN  IF Len(file.type) >= Len(prefix) /\ SubSeq(file.type, 1, Len(prefix)) = prefix
             THEN (RemoveExtension(file.name) :> file.url) @@ before
             ELSE before

\* toast.success / toast.error, and the handler that called it
Toast(kind, from) == [kind |-> kind, from |-> from]

\* mutant: the upload buttons stay enabled while isLoading
UploadAlwaysEnabled(loading) == TRUE

\* disabled={isLoading} on both buttons of FileUpload
UploadEnabled(loading) == ~loading

\* mutant: the step is changed before mapDataToProducts has returned
StepAfterMappingAlways(result, step) == "preview"

\* setCurrentStep('preview') is reached only when mapDataToProducts returned
StepAfterMapping(result, step) == IF result.threw THEN step ELSE "preview"

\* isComplete: every field is mapped to a column (a SelectItem of the sheet's
\* columns) and the value is not ''
IsComplete(map, columns) ==
    \A f \in DOMAIN map : map[f] # <<>> /\ \E k \in 1..Len(columns) : columns[k] = map[f]

\* what generatePDF has done when its promise resolves: the values of its
\* variables after the loops and pdf.save
PlacedLabels(prods, cache) ==
    [k \in 1..Len(prods) |->
        LET at  == (k - 1) % LABELS_PER_PAGE
            row == RowOf(at)
            col == ColOf(at)
        IN  [product |-> prods[k], docPage |-> ((k - 1) \div LABELS_PER_PAGE) + 1,
             row |-> row, col |-> col, x |-> CellX(col), y |-> CellY(row),
             ops |-> DrawLabelToPDF(prods[k], cache)]]

(***************************************************************************)
(* The inputs of the wizard: Excel files (one with a wrong extension, one  *)
(* that cannot be read, one that is no workbook, sheets without rows, with *)
(* a header row only, with two products, with a row that is skipped, with  *)
(* a number as header cell), lists of selected image files, and the        *)
(* mappings the user can submit.  In the preview step the user stays on    *)
(* the first label (the navigation is examined under SpecPreview).         *)
(***************************************************************************)
ExcelFiles ==
    LET File(name, readable, workbook, sheet) ==
            [name |-> name, readable |-> readable, workbook |-> workbook, sheet |-> sheet]
        Row(ref, code, des, q, px) == <<Str(ref), Str(code), Str(des), Str(q), Str(px)>>
        header  == <<Str(<<"R">>), Str(<<"C">>), Str(<<"D">>), Str(<<"Q">>), Str(<<"P">>)>>
        row1    == Row(<<"r", "1">>, <<"1", "2", "3">>, <<"m", "i">>, <<"1">>,
                       <<"1", "2", ".", "5">>)
        row4    == Row(<<"r", "4">>, <<"9">>, <<"a", "m", "i">>, <<"2">>, <<"7">>)
        skipped == Row(<<" ">>, <<"4", "5">>, <<"m">>, <<"1">>, <<"3">>)
        xlsx    == <<"a", ".", "x", "l", "s", "x">>
        xls     == <<"a", ".", "x", "l", "s">>
    IN  { File(<<"a", ".", "c", "s", "v">>, TRUE, TRUE, <<header, row1, row4>>),
          File(xlsx, FALSE, TRUE, <<>>),
          File(xls, TRUE, FALSE, <<>>),
          File(xlsx, TRUE, TRUE, <<>>),
          File(xlsx, TRUE, TRUE, <<header>>),
          File(xlsx, TRUE, TRUE, <<header, row1, row4>>),
          File(xls, TRUE, TRUE, <<header, row4, row1>>),
          File(xls, TRUE, TRUE, <<header, skipped>>),
          File(xlsx, TRUE, TRUE, <<<<Zero>> \o Tail(header), row1, row4>>) }

ImageFileLists ==
    LET File(name, type, url) == [name |-> name, type |-> type, url |-> url]
        png  == <<"i", "m", "a", "g", "e", "/", "p", "n", "g">>
        text == <<"t", "e", "x", "t", "/", "p", "l", "a", "i", "n">>
    IN  { <<File(<<"r", "1", ".", "p", "n", "g">>, png, <<"u", "1">>),
            File(<<"r", "4", ".", "v", "2", ".", "p", "n", "g">>, png, <<"u", "0">>),
            File(<<"r", "4", ".", "p", "n", "g">>, png, <<"u", "4">>)>>,
          <<File(<<"r", "1", ".", "p", "n", "g">>, png, <<"u", "1">>),
            File(<<"r", "4", ".", "t", "x", "t">>, text, <<"u", "4">>)>>,
          <<File(<<"n", ".", "t", "x", "t">>, text, <<"u", "9">>)>> }

WizardMappings ==
    LET Map(ref, code, des, q, px) ==
            [reference |-> ref, codebar |-> code, designation |-> des, qte |-> q, prix |-> px]
    IN  { Map(<<"R">>, <<"C">>, <<"D">>, <<"Q">>, <<"P">>),
          Map(<<"0">>, <<"C">>, <<"D">>, <<"Q">>, <<"P">>),
          Map(<<"D">>, <<"C">>, <<"D">>, <<"Q">>, <<"P">>) }

WizardInit ==
    /\ currentStep = "upload" /\ excelData = Null /\ wzImageFiles = <<>>
    /\ wzProducts = <<>> /\ wzImageCache = <<>> /\ isLoading = FALSE
    /\ parsing = {} /\ toasts = <<>>
    \* the other parts are idle; LabelPreview is not mounted
    /\ products = <<>> /\ imageCache = <<>> /\ pc = "idle" /\ totalPages = 0
    /\ page = 0 /\ pageProducts = <<>> /\ i = 0 /\ docPages = 0
    /\ placed = <<>> /\ saved = 0
    /\ fitPc = "idle" /\ fitText = <<>> /\ fitMaxWidth = 0
    /\ fitResult = <<>> /\ fitAgain = <<>>
    /\ pricePc = {} /\ prix = 0 /\ priceNumber = <<>> /\ hasDecimal = FALSE
    /\ decimal = <<>> /\ priceText = <<>>
    /\ mapPc = "idle" /\ data = <<>> /\ mapping = <<>> /\ imageFiles = <<>>
    /\ mapResult = <<>>
    /\ lblProduct = <<>> /\ lblImage = "none" /\ lblLoad = "none"
    /\ lblBarcodeLoad = FALSE /\ lblOps = <<>>
    /\ pvProducts = <<>> /\ currentIndex = 0 /\ pvCache = {} /\ canvas = <<>>
    /\ runs = EmptyBag /\ pvPending = FALSE /\ clicks = <<>>

\* FileUpload.handleExcelSelect, and handleExcelUpload up to its await: a
\* file with another extension is refused; otherwise setIsLoading(true) and
\* parseExcelFile(file) is started.  The call keeps the imageFiles of the
\* render it was made in.
HandleExcelSelect ==
    /\ currentStep = "upload" /\ UploadEnabled(isLoading)
    /\ Len(toasts) < MaxToasts
    /\ \E file \in ExcelFiles :
          IF ValidExcelName(file.name)
          THEN /\ isLoading' = TRUE
               /\ parsing' = parsing \cup {[file |-> file, imageFiles |-> wzImageFiles]}
               /\ toasts' = Append(toasts, Toast("success", "handleExcelSelect"))
          ELSE /\ toasts' = Append(toasts, Toast("error", "handleExcelSelect"))
               /\ UNCHANGED <<isLoading, parsing>>
    /\ UNCHANGED <<currentStep, excelData, wzImageFiles, wzProducts, wzImageCache>>
    /\ UNCHANGED <<pdfVars, fitVars, priceVars, mapVars, labelVars, previewVars>>

\* parseExcelFile resolved: the try block after the await, and finally
ParseResolved ==
    /\ \E call \in parsing :
          LET parsed == ParseExcelFile(call.file)
          IN  /\ ~parsed.rejected
              /\ excelData' = parsed.value
              /\ currentStep' = IF Cardinality(DOMAIN call.imageFiles) > 0
                                THEN "mapping" ELSE currentStep
              /\ toasts' = Append(toasts, Toast("success", "handleExcelUpload"))
              /\ isLoading' = FALSE
              /\ parsing' = parsing \ {call}
    /\ UNCHANGED <<wzImageFiles, wzProducts, wzImageCache>>
    /\ UNCHANGED <<pdfVars, fitVars, priceVars, mapVars, labelVars, previewVars>>

\* parseExcelFile rejected: catch, and finally
ParseRejected ==
    /\ \E call \in parsing :
          /\ ParseExcelFile(call.file).rejected
          /\ toasts' = Append(toasts, Toast("error", "handleExcelUpload"))
          /\ isLoading' = FALSE
          /\ parsing' = parsing \ {call}
    /\ UNCHANGED <<currentStep, excelData, wzImageFiles, wzProducts, wzImageCache>>
    /\ UNCHANGED <<pdfVars, fitVars, priceVars, mapVars, labelVars, previewVars>>

\* FileUpload.handleImagesSelect with at least one file, and handleImagesUpload
HandleImagesSelect ==
    /\ currentStep = "upload" /\ UploadEnabled(isLoading)
    /\ Len(toasts) < MaxToasts
    /\ \E files \in ImageFileLists :
          /\ Len(files) > 0
          /\ wzImageFiles' = ProcessImageFiles(files)
    /\ currentStep' = IF excelData # Null THEN "mapping" ELSE currentStep
    /\ toasts' = toasts \o <<Toast("success", "handleImagesUpload"),
                             Toast("success", "handleImagesSelect")>>
    /\ UNCHANGED <<excelData, wzProducts, wzImageCache, isLoading, parsing>>
    /\ UNCHANGED <<pdfVars, fitVars, priceVars, mapVars, labelVars, previewVars>>

\* ColumnMapper.handleSubmit with a complete mapping, and
\* handleMappingComplete (it has no await) with its call
\* mapDataToProducts(excelData.data, mapping, imageFiles).  With the step
\* 'preview' and at
\* least one product LabelPreview is mounted: index 0, an empty image cache,
\* its first effect to run.
HandleSubmit ==
    /\ currentStep = "mapping" /\ excelData # Null /\ ~isLoading
    /\ Len(toasts) < MaxToasts
    /\ \E map \in WizardMappings :
          /\ IsComplete(map, excelData.columns)
          /\ LET result == MapDataToProducts(excelData.data, map, wzImageFiles)
             IN  /\ wzProducts' = IF result.threw THEN wzProducts ELSE result.products
                 /\ currentStep' = StepAfterMapping(result, currentStep)
                 /\ toasts' = Append(toasts,
                        Toast(IF result.threw THEN "error" ELSE "success",
                              "handleMappingComplete"))
                 /\ data' = excelData.data /\ mapping' = map
                 /\ imageFiles' = wzImageFiles
                 /\ mapResult' = result /\ mapPc' = "done"
    /\ isLoading' = FALSE
    /\ IF currentStep' = "preview" /\ Len(wzProducts') > 0
       THEN /\ pvProducts' = wzProducts'
            /\ currentIndex' = 0 /\ pvCache' = {} /\ canvas' = <<>>
            /\ runs' = EmptyBag /\ pvPending' = TRUE /\ clicks' = <<>>
       ELSE UNCHANGED previewVars
    /\ UNCHANGED <<excelData, wzImageFiles, wzImageCache, parsing>>
    /\ UNCHANGED <<pdfVars, fitVars, priceVars, labelVars>>

\* the click on 'Download All Labels as PDF': handleGeneratePDF.  The awaits
\* of generatePDF are on promises that are already resolved, so no event of
\* the page comes between its steps: the export runs from new jsPDF() to
\* pdf.save, then the toast and finally.
HandleGeneratePDF ==
    /\ currentStep = "preview" /\ Len(wzProducts) > 0 /\ ~isLoading
    /\ Len(toasts) < MaxToasts
    /\ products' = wzProducts
    /\ imageCache' = wzImageCache
    /\ totalPages' = TotalPages(Len(wzProducts))
    /\ page' = totalPages'
    /\ pageProducts' = Slice(wzProducts, StartIndex(totalPages' - 1),
                             EndIndex(totalPages' - 1, Len(wzProducts)))
    /\ i' = Len(pageProducts')
    /\ docPages' = totalPages'
    /\ placed' = PlacedLabels(wzProducts, wzImageCache)
    /\ saved' = 1
    /\ pc' = "done"
    /\ toasts' = Append(toasts, Toast("success", "handleGeneratePDF"))
    /\ isLoading' = FALSE
    /\ UNCHANGED <<currentStep, excelData, wzImageFiles, wzProducts, wzImageCache, parsing>>
    /\ UNCHANGED <<fitVars, priceVars, mapVars, labelVars, previewVars>>

WizardNext ==
    \/ HandleExcelSelect
    \/ ParseResolved
    \/ ParseRejected
    \/ HandleImagesSelect
    \/ HandleSubmit
    \/ HandleGeneratePDF
    \/ RunEffect
    \/ ImageLoaded
    \/ ImageLoadFailed
    \/ BarcodeLoaded
    \/ BarcodeLoadFailed

SpecWizard == WizardInit /\ [][WizardNext]_vars

\* the parse of a file always ends: FileReader fires onload or onerror
FairSpecWizard == SpecWizard /\ WF_vars(ParseResolved) /\ WF_vars(ParseRejected)

(***************************************************************************)
(* Claims about the wizard (checked under SpecWizard, the liveness under   *)
(* FairSpecWizard).                                                        *)
(***************************************************************************)
\* the step in which a call of handleExcelUpload ends with parseExcelFile
\* rejected
RejectedParseEnds ==
    \E call \in parsing : call \notin parsing' /\ ParseExcelFile(call.file).rejected

\* the step in which handleMappingComplete runs and mapDataToProducts throws
MappingThrows ==
    /\ currentStep = "mapping" /\ parsing = {} /\ toasts' # toasts
    /\ mapPc' = "done" /\ mapResult'.threw

\* C22: a whole-input failure produces no partial result.  When
\* parseExcelFile rejects, handleExcelUpload leaves excelData and currentStep
\* unchanged; when mapDataToProducts throws, handleMappingComplete leaves
\* products and currentStep unchanged; in both cases a single error is
\* reported and isLoading is reset to false.
C22_NoPartialResult ==
    [][/\ RejectedParseEnds =>
            /\ excelData' = excelData /\ currentStep' = currentStep
            /\ wzProducts' = wzProducts
            /\ toasts' = Append(toasts, Toast("error", "handleExcelUpload"))
            /\ isLoading' = FALSE
       /\ MappingThrows =>
            /\ wzProducts' = wzProducts /\ currentStep' = currentStep
            /\ excelData' = excelData /\ pvProducts' = pvProducts
            /\ toasts' = Append(toasts, Toast("error", "handleMappingComplete"))
            /\ isLoading' = FALSE]_vars

\* C22 witness: a first Excel file was rejected, a second one was parsed,
\* and the mapping of a column that is not in its header row has thrown: the
\* wizard is still in 'mapping' without products and not loading, and each
\* failure has reported one error.
C22_Witness ==
    /\ currentStep = "mapping" /\ excelData # Null /\ wzProducts = <<>> /\ ~isLoading
    /\ mapPc = "done" /\ mapResult.threw
    /\ toasts[Len(toasts)] = Toast("error", "handleMappingComplete")
    /\ Cardinality({k \in 1..Len(toasts) : toasts[k].kind = "error"}) = 2
    /\ \E k \in 1..Len(toasts) : toasts[k] = Toast("error", "handleExcelUpload")

\* C24: in every reachable state of the wizard, currentStep = 'preview'
\* implies that products is non-empty (so that the preview step always shows
\* the Products Ready card and the LabelPreview).
C24_PreviewHasProducts == currentStep = "preview" => Len(wzProducts) > 0

\* C24 witness: the sheet has only its header row, the mapping was submitted
\* and the wizard is in 'preview' with no product; LabelPreview is not mounted.
C24_Witness ==
    /\ currentStep = "preview" /\ wzProducts = <<>> /\ pvProducts = <<>>
    /\ Len(excelData.data) = 1
    /\ toasts[Len(toasts)] = Toast("success", "handleMappingComplete")

\* the place of a step in the wizard
StepRank(step) == CASE step = "upload" -> 1 [] step = "mapping" -> 2 [] step = "preview" -> 3

\* C25: the wizard step only moves forward, upload -> mapping -> preview,
\* never backward and never skipping mapping; in every reachable state
\* currentStep in {'mapping', 'preview'} implies excelData is non-null, and
\* currentStep = 'mapping' implies at least one image is held in imageFiles.
C25_ForwardWithInputs ==
    /\ [][currentStep' # currentStep => StepRank(currentStep') = StepRank(currentStep) + 1]_vars
    /\ [](currentStep \in {"mapping", "preview"} => excelData # Null)
    /\ [](currentStep = "mapping" => Cardinality(DOMAIN wzImageFiles) >= 1)

\* C25 witness: the Excel file was parsed first, then a selection without
\* any image file was uploaded: the wizard is in 'mapping' and holds no image.
C25_Witness ==
    /\ currentStep = "mapping" /\ excelData # Null /\ wzImageFiles = <<>>
    /\ toasts[Len(toasts)] = Toast("success", "handleImagesSelect")

\* a call of handleExcelUpload is suspended on a file that will parse
ParsePending == \E call \in parsing : ~ParseExcelFile(call.file).rejected

\* C26: once an Excel file has been parsed and a non-empty set of images has
\* been loaded, in either order, the wizard is not left in 'upload': it is
\* never in 'upload' with excelData set and imageFiles non-empty, and when
\* images are held while a parse that will succeed is still running, the
\* wizard reaches 'mapping' without any further upload.
C26_LeavesUpload ==
    /\ [](~(currentStep = "upload" /\ excelData # Null /\ wzImageFiles # <<>>))
    /\ (currentStep = "upload" /\ wzImageFiles # <<>> /\ ParsePending)
           ~> (currentStep = "mapping" /\ excelData # Null /\ wzImageFiles # <<>>)

\* C26 witness: the images were loaded first, the parse of the Excel file
\* has ended after them, and the wizard is in 'mapping'.
C26_Witness ==
    /\ currentStep = "mapping" /\ excelData # Null /\ wzImageFiles # <<>>
    /\ Len(toasts) >= 4
    /\ toasts[1] = Toast("success", "handleImagesUpload")
    /\ toasts[Len(toasts)] = Toast("success", "handleExcelUpload")

\* the step in which handleGeneratePDF runs
ExportRuns == toasts' = Append(toasts, Toast("success", "handleGeneratePDF"))

\* the label of the k-th product of the export shows its image
ExportedWithImage(k) ==
    /\ Where(placed'[k].ops, "image") # {}
    /\ Where(placed'[k].ops, "placeholderBox") = {}

\* C27: when export is started from the wizard, the image cache passed to
\* generatePDF contains an entry for every reference whose image the preview
\* has loaded, and a product whose reference has an uploaded image that the
\* preview has loaded is drawn in the PDF with its image, not the placeholder.
C27_ExportUsesLoadedImages ==
    [][ExportRuns =>
          /\ \A r \in pvCache : r \in DOMAIN imageCache'
          /\ \A k \in 1..Len(placed') :
                (placed'[k].product.image # NoImage /\ placed'[k].product.reference \in pvCache)
                    => ExportedWithImage(k)]_vars

\* C27 witness: the image r1.png was uploaded, the preview has loaded it for
\* the product r1, and the export has run with an empty image cache and has
\* drawn the placeholder on the label of r1.
C27_Witness ==
    /\ pc = "done" /\ saved = 1 /\ imageCache = <<>>
    /\ <<"r", "1">> \in pvCache /\ <<"r", "1">> \in DOMAIN wzImageFiles
    /\ placed[1].product.reference = <<"r", "1">>
    /\ placed[1].product.image = <<"u", "1">>
    /\ PlaceholderInSlot(placed[1].ops)
    /\ toasts[Len(toasts)] = Toast("success", "handleGeneratePDF")


====
